---- MODULE Spec2Model ----
(***************************************************************************)
(* State-machine model of the performance and access-control layer of the  *)
(* bot: MemoryCache, UserRateLimiter, RateLimiter (performance_optimizer), *)
(* the token operations of DatabaseManager (database) and the cached token *)
(* functions and scheduled refresh of the bot (bot).                       *)
(*                                                                         *)
(* Time is the value of time.time() in whole seconds.  Python's None is    *)
(* the integer NoneVal; every other value the model stores is >= 0 or a    *)
(* record.                                                                 *)
(***************************************************************************)
EXTENDS Integers, Sequences, FiniteSets, TLC

(***************************************************************************)
(* Bounds of the model.                                                    *)
(***************************************************************************)
\* seconds between two observed instants of the cache and limiter clocks
TickSeconds == 30
\* last instant of the cache clock
CacheMaxTime == 60
\* last instant of the limiter clock
LimiterMaxTime == 90
\* max_requests of the UserRateLimiter under test (constructor argument)
MaxRequests == 2
\* is_allowed calls recorded per identity
MaxCalls == 4
\* last instant of the token-bucket clock
BucketMaxTime == 3
\* last instant of the verification clock
VerifyMaxTime == 90
\* tokens the store holds in the verification model
MaxTokens == 1
\* verify_token calls made per token
MaxVerifies == 2
\* last whole hour of the refresh clock
RefreshMaxHours == 24
\* uuids drawn in the refresh model
RefreshMaxTokens == 3
\* store calls that fail in the refresh model
MaxStoreFailures == 1
\* max_size of the MemoryCache under test (constructor argument)
MaxSize == 2
\* last instant of the clock of the token-function model
AccessMaxTime == 390
\* calls of token functions made in the token-function model
MaxAccessCalls == 3
\* last instant of the clock of the wait_for_tokens model
WaitMaxTime == 20
\* last instant of the clock of the model of start() and stop()
LifeMaxTime == 90
\* calls of monitored handlers recorded by the performance monitor
MaxMonitored == 8
\* last instant of the clock of the model of the decorated handlers
DecoratedMaxTime == 60
\* max_connections of the ConnectionPool of the model
MaxConnections == 2
\* files of the longest batch delivered in the batch model
MaxBatchLen == 6
\* files of the longest batch delivered in the request model
RequestBatchLen == 1

CacheKeys == {"k1", "k2", "k3"}
CacheValues == {1}
CacheTtls == {TickSeconds}
Users == {1, 2}
AcquireCosts == {1, 30, 101}
\* owners of tokens: 0 is the shared (system) owner
Owners == {0, 1}
\* coroutines that may be inside a cached call at once
Callers == {1, 2}
\* validity, in seconds, of the tokens saved in the verification model
Lifetimes == {TickSeconds, 2 * TickSeconds}

\* Python's None
NoneVal == -1
\* MemoryCache(default_ttl=300, ...)
DefaultTtl == 300
\* asyncio.sleep(60) of MemoryCache._cleanup_expired
CleanupSleep == 60
\* UserRateLimiter(..., window_seconds=60)
WindowSeconds == 60
\* asyncio.sleep(30) of UserRateLimiter._cleanup_old_requests
SweepSleep == 30
\* rate_limiter = RateLimiter(max_tokens=100, refill_rate=10.0)
BucketMaxTokens == 100
RefillRate == 10
\* @cached(ttl=60, ...) of verify_token
VerifyTtl == 60
\* @cached(ttl=1800, ...) of generate_token
GenTtl == 1800
\* cache.set("valid_system_token", valid_token, ttl=1800) of preload_cache
PreloadTtl == 1800
\* TOKEN_DURATION, in hours
TokenDurationHours == 24
HourSeconds == 3600
TokenDuration == TokenDurationHours * HourSeconds
\* timedelta(hours=1) of refresh_token
MarginSeconds == 1 * HourSeconds
\* run_repeating(refresh_token, interval=config.TOKEN_DURATION * 3600 / 2, first=60)
RefreshFirst == 60
RefreshInterval == (TokenDurationHours * HourSeconds) \div 2
\* the (None, None) generate_token returns when the token was not saved
GenFailed == 0
\* remaining validity of the shared token a previous run may have left
InitRemaining == {2 * HourSeconds}
\* @cached(ttl=300, ...) of check_user_token
CheckTtl == 300
\* cache.set(cache_key, is_banned, ttl=300)
BanTtl == 300
\* remaining validity of the shared token the token-function model starts with
AccessRemaining == {2 * TickSeconds}
\* batch_size = 5 of send_file
ChunkSize == 5
\* the identity whose requests are followed through the handlers
Requesters == {1}
\* what db.get_file gives send_file for the reference of the request
ItemLookups == {"nothing", "no_message_id", "found"}
\* what one awaited db.get_file of a chunk gives
ChunkLookups == {"raised", "nothing", "no_message_id", "found"}

VARIABLES
    now,            \* time.time()
    cache,          \* MemoryCache._cache: key -> [value, expires_at]
    access_times,   \* MemoryCache._access_times, in dict (insertion) order
    cleanup_task,   \* MemoryCache._cleanup_task: "none" | "running"
    cleanup_wake,   \* instant at which the sleeping cleanup loop resumes
    cacheOp,        \* history: the last cache operation and what it saw
    setInfo,        \* history: per key, the last set and whether it still stands
    user_requests,  \* UserRateLimiter.user_requests: identity -> deque of timestamps
    sweep_task,     \* UserRateLimiter._cleanup_task: "none" | "running"
    sweep_wake,     \* instant at which the sleeping sweep loop resumes
    limOp,          \* history: the last limiter operation and its result
    calls,          \* history: per identity, every is_allowed call [t, ok]
    tokens,         \* RateLimiter.tokens
    last_refill,    \* RateLimiter.last_refill
    bucketOp,       \* history: the last acquire, what it found and what it returned
    tokensDb,       \* the tokens collection: token -> [user_id, expiry, used_count, last_used]
    nextTok,        \* the next uuid4 (tokens are numbered in order of creation)
    pend,           \* per coroutine, the cached call it is suspended in
    verOp,          \* history: the last verify_token call that returned
    okCount,        \* history: per token, the verify_token calls that returned an owner
    issued,         \* history: per token ever saved, its owner and expiry
    boot,           \* "boot" before post_init has run, "running" after
    next_run,       \* the job queue: when refresh_token runs next (NoneVal: not scheduled)
    refOp,          \* history: the last run of refresh_token and what it did
    storeFailures,  \* history: how many store calls have failed
    verification,   \* config.TOKEN_VERIFICATION_ENABLED
    rpc,            \* where the request in progress is: "idle" between requests
    ruser,          \* update.effective_user.id of the request in progress
    rargs,          \* context.args of the request in progress names a reference
    depth,          \* 1 inside start_command, 2 inside the send_file it calls
    events,         \* history: what the request has reached so far, in order
    outcome,        \* history: how the last request ended
    lookups,        \* history: the lookups made for the reference and what they gave
    batch_files,    \* batch_data["files"]
    chunk_at,       \* i of the loop over chunks
    file_results,   \* file_results of the chunk being processed
    item_at,        \* position in the chunk of the next item to process
    sent_messages,  \* sent_messages
    missing_files,  \* missing_files
    fate,           \* history: per item processed, what happened to it
    accOp,          \* history: the last call of a token function and what it returned
    freshFor,       \* history: identities not checked since a token was issued for them
    accCalls,       \* history: how many calls of token functions were made
    waiters,        \* per coroutine, where it is in wait_for_tokens and the cost it asked for
    stop_pc,        \* per component, "awaiting" while stop() awaits the cancelled task
    stopped,        \* history: per component, stop() has returned and start() was not called since
    lifeOp,         \* history: the last step of start(), stop() or of a background loop
    loops,          \* history: per component, loop tasks created and not ended
    requests_total, \* performance_monitor.metrics["requests_total"]
    error_count,    \* performance_monitor.error_count
    monOp,          \* history: the last call of a monitored handler and how it ended
    invoked,        \* history: per decorated handler and identity, when its body was entered
    fan_pc,         \* where the loop over the chunks of a batch is
    delays,         \* history: how many times "await asyncio.sleep(0.5)" was reached
    completed,      \* history: the items in the order their db.get_file returned
    tasks,          \* items whose db.get_file of the pending gather has not returned
    sending,        \* items whose copy_message has not returned
    processed,      \* history: items the loop is through with
    bannedDb,       \* the users the "users" collection holds with is_banned true
    ban_pc,         \* where the admin's ban_user call is
    banOp,          \* history: the last ban check of a handler and what it decided
    pool_q,         \* ConnectionPool._pool: how many connections the queue holds
    created_connections, \* ConnectionPool._created_connections
    pool_lock,      \* ConnectionPool._lock: the client that holds it, or NoneVal
    pool_pc,        \* per client, where it is in acquire() or that it holds a connection
    open_conns      \* history: connections created and not closed

cacheVars == <<cache, access_times, cleanup_task, cleanup_wake, cacheOp, setInfo>>
limiterVars == <<user_requests, sweep_task, sweep_wake, limOp, calls>>
bucketVars == <<tokens, last_refill, bucketOp>>
tokenVars == <<tokensDb, nextTok, pend, verOp, okCount, issued>>
refreshVars == <<boot, next_run, refOp, storeFailures>>
requestVars == <<verification, rpc, ruser, rargs, depth, events, outcome, lookups>>
batchVars == <<batch_files, chunk_at, file_results, item_at, sent_messages, missing_files, fate>>
accessVars == <<accOp, freshFor, accCalls>>
waitVars == <<waiters>>
lifeVars == <<stop_pc, stopped, lifeOp, loops>>
monVars == <<requests_total, error_count, monOp>>
decoVars == <<invoked>>
fanVars == <<fan_pc, tasks, sending, processed, delays, completed>>
banVars == <<bannedDb, ban_pc, banOp>>
poolVars == <<pool_q, created_connections, pool_lock, pool_pc, open_conns>>
otherVars == <<banVars, poolVars>>
sideVars == <<waitVars, lifeVars, monVars, decoVars, fanVars, otherVars>>
handlerVars == <<requestVars, batchVars, accessVars, sideVars>>
vars == <<now, cacheVars, limiterVars, bucketVars, tokenVars, refreshVars, handlerVars>>

\* what the operations of one component leave alone
offCache == <<limiterVars, bucketVars, tokenVars, refreshVars, handlerVars>>
offLimiter == <<cacheVars, bucketVars, tokenVars, refreshVars, handlerVars>>
offBucket == <<cacheVars, limiterVars, tokenVars, refreshVars, handlerVars>>
\* the token functions use the cache, not its background task
offToken == <<limiterVars, bucketVars, cleanup_task, cleanup_wake, cacheOp, setInfo, refreshVars,
             handlerVars>>
\* refresh_token and generate_token leave the limiters and verify_token alone
\* the handlers use the cache, the limiter and the store, not the background
\* tasks, the token bucket or the job queue
offRequest == <<sweep_task, sweep_wake, limOp, calls, bucketVars, cleanup_task, cleanup_wake,
                cacheOp, setInfo, pend, verOp, okCount, refreshVars, accessVars, sideVars>>
\* the token functions called on their own
offAccess == <<limiterVars, bucketVars, cleanup_task, cleanup_wake, cacheOp, setInfo, pend,
               verOp, okCount, refreshVars, requestVars, batchVars, sideVars>>
\* wait_for_tokens uses the token bucket only
offWait == <<cacheVars, limiterVars, tokenVars, refreshVars, requestVars, batchVars, accessVars,
             lifeVars, monVars, decoVars, fanVars, otherVars>>
\* start() and stop() of the cache and of the limiter, and their loops
offLife == <<cacheOp, setInfo, limOp, calls, bucketVars, tokenVars, refreshVars, requestVars,
             batchVars, accessVars, waitVars, monVars, decoVars, fanVars, otherVars>>
\* the wrapper of @monitored uses the performance monitor only
offMonitor == <<cacheVars, limiterVars, bucketVars, tokenVars, refreshVars, requestVars,
                batchVars, accessVars, waitVars, lifeVars, decoVars, fanVars, otherVars>>
\* the wrappers of @rate_limited use the limiter only
offDecorated == <<sweep_task, sweep_wake, cacheVars, bucketVars, tokenVars, refreshVars,
                  requestVars, batchVars, accessVars, waitVars, lifeVars, monVars, fanVars,
                  otherVars>>
\* the loop over the chunks of one batch
offFan == <<cacheVars, limiterVars, bucketVars, tokenVars, refreshVars, requestVars,
            file_results, fate, accessVars, waitVars, lifeVars, monVars, decoVars, otherVars>>
offRefresh == <<user_requests, limOp, calls, bucketVars, cacheOp, setInfo, pend, verOp, okCount,
               handlerVars>>

(***************************************************************************)
(* MemoryCache                                                             *)
(***************************************************************************)
Drop(c, key) == [k \in DOMAIN c \ {key} |-> c[k]]
Put(c, key, e) == [k \in DOMAIN c \cup {key} |-> IF k = key THEN e ELSE c[k]]

AtKeys(a) == {a[i].key : i \in DOMAIN a}
AtPop(a, key) == SelectSeq(a, LAMBDA x : x.key # key)
AtPut(a, key, t) ==
    IF key \in AtKeys(a)
    THEN [i \in DOMAIN a |-> IF a[i].key = key THEN [key |-> key, t |-> t] ELSE a[i]]
    ELSE Append(a, [key |-> key, t |-> t])
AtTimeOf(a, key) == a[CHOOSE i \in DOMAIN a : a[i].key = key].t

\* get: the read-time expiry test, current_time > data["expires_at"]
GetExpiredLate(t, expires_at) == t >= expires_at
GetExpired(t, expires_at) == t > expires_at

\* MemoryCache.get: [result, cache, access]
MemGetSliding(c, a, key, t) ==
    IF key \notin DOMAIN c
    THEN [result |-> NoneVal, cache |-> c, access |-> a]
    ELSE IF GetExpired(t, c[key].expires_at)
         THEN [result |-> NoneVal, cache |-> Drop(c, key), access |-> AtPop(a, key)]
         ELSE [result |-> c[key].value,
               cache |-> Put(c, key, [value |-> c[key].value,
                                      expires_at |-> t + DefaultTtl]),
               access |-> AtPut(a, key, t)]
MemGet(c, a, key, t) ==
    IF key \notin DOMAIN c
    THEN [result |-> NoneVal, cache |-> c, access |-> a]
    ELSE IF GetExpired(t, c[key].expires_at)
         THEN [result |-> NoneVal, cache |-> Drop(c, key), access |-> AtPop(a, key)]
         ELSE [result |-> c[key].value, cache |-> c, access |-> AtPut(a, key, t)]

\* MemoryCache.set: [cache, access]
MemSetKeepingLater(c, a, key, value, ttl, t) ==
    LET expires_at == IF key \in DOMAIN c /\ c[key].expires_at > t + ttl
                      THEN c[key].expires_at ELSE t + ttl
    IN [cache |-> Put(c, key, [value |-> value, expires_at |-> expires_at]),
        access |-> AtPut(a, key, t)]
MemSet(c, a, key, value, ttl, t) ==
    [cache |-> Put(c, key, [value |-> value, expires_at |-> t + ttl]),
     access |-> AtPut(a, key, t)]

\* MemoryCache.delete: [result, cache, access]
MemDeleteKeepingAccess(c, a, key) ==
    IF key \in DOMAIN c
    THEN [result |-> TRUE, cache |-> Drop(c, key), access |-> a]
    ELSE [result |-> FALSE, cache |-> c, access |-> a]
MemDelete(c, a, key) ==
    IF key \in DOMAIN c
    THEN [result |-> TRUE, cache |-> Drop(c, key), access |-> AtPop(a, key)]
    ELSE [result |-> FALSE, cache |-> c, access |-> a]

\* sorted(self._access_times.items(), key=lambda x: x[1]): a stable sort
RECURSIVE InsertByTime(_, _)
InsertByTime(s, x) ==
    IF s = <<>> THEN <<x>>
    ELSE IF x.t < Head(s).t THEN <<x>> \o s
    ELSE <<Head(s)>> \o InsertByTime(Tail(s), x)
RECURSIVE SortedByTime(_)
SortedByTime(a) ==
    IF a = <<>> THEN <<>>
    ELSE InsertByTime(SortedByTime(SubSeq(a, 1, Len(a) - 1)), a[Len(a)])

CleanupExpiredKeys(c, t) == {k \in DOMAIN c : t > c[k].expires_at}

\* keys_to_remove = sorted_keys[:len(self._cache) - self.max_size]
KeysToRemoveNewest(c, a) ==
    LET s == SortedByTime(a)
        n == Cardinality(DOMAIN c) - MaxSize
    IN {s[i].key : i \in (Len(s) - n + 1)..Len(s)}
KeysToRemove(c, a) ==
    LET s == SortedByTime(a)
        n == Cardinality(DOMAIN c) - MaxSize
    IN {s[i].key : i \in 1..n}

\* one pass of the body of the loop of _cleanup_expired: [cache, access]
CleanupPass(c, a, t) ==
    LET ex == CleanupExpiredKeys(c, t)
        c1 == [k \in DOMAIN c \ ex |-> c[k]]
        a1 == SelectSeq(a, LAMBDA x : x.key \notin ex)
    IN IF Cardinality(DOMAIN c1) > MaxSize
       THEN LET rm == KeysToRemove(c1, a1)
            IN [cache |-> [k \in DOMAIN c1 \ rm |-> c1[k]],
                access |-> SelectSeq(a1, LAMBDA x : x.key \notin rm)]
       ELSE [cache |-> c1, access |-> a1]

NoOp == [op |-> "none"]
NoSet == [live |-> FALSE, t0 |-> 0, ttl |-> 0, value |-> NoneVal]

InitCacheVars ==
    /\ cache = <<>>
    /\ access_times = <<>>
    /\ cleanup_task = "none"
    /\ cleanup_wake = 0
    /\ cacheOp = NoOp
    /\ setInfo = [k \in CacheKeys |-> NoSet]

(***************************************************************************)
(* UserRateLimiter                                                         *)
(***************************************************************************)
\* while requests and requests[0] < cutoff_time: requests.popleft()
RECURSIVE PruneOld(_, _)
PruneOld(requests, cutoff) ==
    IF requests # <<>> /\ Head(requests) < cutoff
    THEN PruneOld(Tail(requests), cutoff)
    ELSE requests

\* user_requests[user_id] of a defaultdict(deque): a missing key reads as empty
RequestsOf(ur, u) == IF u \in DOMAIN ur THEN ur[u] ELSE <<>>

\* if len(requests) < self.max_requests
UnderLimitOffByOne(n) == n <= MaxRequests
UnderLimit(n) == n < MaxRequests

\* UserRateLimiter.is_allowed: [result, ur]
\* "return False" follows the test directly: a refused request is not appended
RefusedAndRecorded(kept, t) == Append(kept, t)
Refused(kept, t) == kept

IsAllowed(ur, u, t) ==
    LET kept == PruneOld(RequestsOf(ur, u), t - WindowSeconds)
    IN IF UnderLimit(Len(kept))
       THEN [result |-> TRUE, ur |-> Put(ur, u, Append(kept, t))]
       ELSE [result |-> FALSE, ur |-> Put(ur, u, Refused(kept, t))]

\* return requests[0] + self.window_seconds
ResetOfNewest(requests) == requests[Len(requests)] + WindowSeconds
ResetOf(requests) == requests[1] + WindowSeconds

\* UserRateLimiter.get_reset_time: [result, ur]
ResetTime(ur, u) ==
    LET requests == RequestsOf(ur, u)
    IN [result |-> IF requests = <<>> THEN 0 ELSE ResetOf(requests),
        ur |-> Put(ur, u, requests)]

\* "while requests and requests[0] < cutoff_time: requests.popleft()" of
\* the sweep, the same test as in is_allowed
RECURSIVE SweepPruneThroughCutoff(_, _)
SweepPruneThroughCutoff(requests, cutoff) ==
    IF requests # <<>> /\ Head(requests) <= cutoff
    THEN SweepPruneThroughCutoff(Tail(requests), cutoff)
    ELSE requests
SweepPrune(requests, cutoff) == PruneOld(requests, cutoff)

\* one pass of the body of the loop of _cleanup_old_requests
SweepPassKeepingEmpty(ur, t) ==
    [u \in DOMAIN ur |-> PruneOld(ur[u], t - WindowSeconds)]
SweepPass(ur, t) ==
    LET pruned == [u \in DOMAIN ur |-> SweepPrune(ur[u], t - WindowSeconds)]
        keep == {u \in DOMAIN ur : pruned[u] # <<>>}
    IN [u \in keep |-> pruned[u]]

InitLimiterVars ==
    /\ user_requests = <<>>
    /\ sweep_task = "none"
    /\ sweep_wake = 0
    /\ limOp = NoOp
    /\ calls = [u \in Users |-> <<>>]

\* user_rate_limiter.is_allowed(user_id)
LimIsAllowed(u) ==
    /\ Len(calls[u]) < MaxCalls
    /\ LET r == IsAllowed(user_requests, u, now)
       IN /\ user_requests' = r.ur
          /\ limOp' = [op |-> "is_allowed", user |-> u, result |-> r.result]
          /\ calls' = [calls EXCEPT ![u] = Append(@, [t |-> now, ok |-> r.result])]
    /\ UNCHANGED <<now, sweep_task, sweep_wake>>
    /\ UNCHANGED offLimiter

\* user_rate_limiter.get_reset_time(user_id)
LimGetResetTime(u) ==
    /\ LET r == ResetTime(user_requests, u)
       IN /\ user_requests' = r.ur
          /\ limOp' = [op |-> "get_reset_time", user |-> u, result |-> r.result]
    /\ UNCHANGED <<now, sweep_task, sweep_wake, calls>>
    /\ UNCHANGED offLimiter

\* user_rate_limiter.start()
LimStart ==
    /\ sweep_task = "none"
    /\ sweep_task' = "running"
    /\ sweep_wake' = now
    /\ limOp' = NoOp
    /\ UNCHANGED <<now, user_requests, calls>>
    /\ UNCHANGED offLimiter

\* user_rate_limiter.stop()
LimStop ==
    /\ sweep_task = "running"
    /\ sweep_task' = "none"
    /\ limOp' = NoOp
    /\ UNCHANGED <<now, user_requests, sweep_wake, calls>>
    /\ UNCHANGED offLimiter

\* one sweep cycle of the running loop, then asyncio.sleep(30)
LimSweepCycle ==
    /\ sweep_task = "running"
    /\ now >= sweep_wake
    /\ user_requests' = SweepPass(user_requests, now)
    /\ sweep_wake' = now + SweepSleep
    /\ limOp' = [op |-> "sweep", removed |-> DOMAIN user_requests \ DOMAIN user_requests']
    /\ UNCHANGED <<now, sweep_task, calls>>
    /\ UNCHANGED offLimiter

TickLimiter ==
    /\ now + TickSeconds <= LimiterMaxTime
    /\ now' = now + TickSeconds
    /\ limOp' = NoOp
    /\ UNCHANGED <<user_requests, sweep_task, sweep_wake, calls>>
    /\ UNCHANGED offLimiter

NextLimiter ==
    \/ \E u \in Users : LimIsAllowed(u)
    \/ \E u \in Users : LimGetResetTime(u)
    \/ LimStart
    \/ LimStop
    \/ LimSweepCycle
    \/ TickLimiter


(***************************************************************************)
(* RateLimiter (token bucket)                                              *)
(***************************************************************************)
Min(a, b) == IF a <= b THEN a ELSE b

\* self.tokens = min(self.max_tokens, self.tokens + tokens_to_add)
RefillUncapped(tk, time_passed) == tk + time_passed * RefillRate
Refill(tk, time_passed) == Min(BucketMaxTokens, tk + time_passed * RefillRate)

\* the body of RateLimiter.acquire under self._lock: [result, tokens]
Acquire(tk, last, cost, t) ==
    LET refilled == Refill(tk, t - last)
    IN IF refilled >= cost
       THEN [result |-> TRUE, tokens |-> refilled - cost]
       ELSE [result |-> FALSE, tokens |-> refilled]

InitBucketVars ==
    /\ tokens = BucketMaxTokens
    /\ last_refill = 0
    /\ bucketOp = NoOp

\* rate_limiter.acquire(cost): the locked region holds no suspension point,
\* so concurrent callers run it one after the other
BucketAcquire(cost) ==
    /\ LET r == Acquire(tokens, last_refill, cost, now)
       IN /\ tokens' = r.tokens
          /\ bucketOp' = [op |-> "acquire", cost |-> cost, ok |-> r.result,
                          before |-> tokens, time_passed |-> now - last_refill]
    /\ last_refill' = now
    /\ UNCHANGED now
    /\ UNCHANGED offBucket

TickBucket ==
    /\ now + 1 <= BucketMaxTime
    /\ now' = now + 1
    /\ bucketOp' = NoOp
    /\ UNCHANGED <<tokens, last_refill>>
    /\ UNCHANGED offBucket

NextBucket ==
    \/ \E cost \in AcquireCosts : BucketAcquire(cost)
    \/ TickBucket

(***************************************************************************)
(* DatabaseManager: the tokens collection                                  *)
(***************************************************************************)
\* "expiry": {"$gt": datetime.now(timezone.utc)}
Unexpired(doc, t) == doc.expiry > t

\* DatabaseManager.save_token, the store accepting the insert or failing;
\* the unique index on "token" refuses a token already stored: [result, db]
DbSaveTokenUpsert(db, tok, user_id, expiry, ok) ==
    IF ok
    THEN [result |-> TRUE,
          db |-> Put(db, tok, [user_id |-> user_id, expiry |-> expiry,
                              used_count |-> 0, last_used |-> NoneVal])]
    ELSE [result |-> FALSE, db |-> db]
DbSaveToken(db, tok, user_id, expiry, ok) ==
    IF ok /\ tok \notin DOMAIN db
    THEN [result |-> TRUE,
          db |-> Put(db, tok, [user_id |-> user_id, expiry |-> expiry,
                              used_count |-> 0, last_used |-> NoneVal])]
    ELSE [result |-> FALSE, db |-> db]

\* DatabaseManager.verify_token with the query built at time t: [result, db]
DbVerifyToken(db, tok, t, ok) ==
    IF ok /\ tok \in DOMAIN db /\ Unexpired(db[tok], t)
    THEN [result |-> db[tok].user_id,
          db |-> [db EXCEPT ![tok].used_count = @ + 1, ![tok].last_used = t]]
    ELSE [result |-> NoneVal, db |-> db]

\* the keys of the cached token functions
VerifyKey(tok) == <<"verify_token", tok>>

Idle == [fn |-> "idle"]

InitTokenVars ==
    /\ tokensDb = <<>>
    /\ nextTok = 1
    /\ pend = [c \in Callers |-> Idle]
    /\ verOp = NoOp
    /\ okCount = <<>>
    /\ issued = <<>>

\* db.save_token(str(uuid.uuid4()), user_id, now + life)
StoreSaveToken(user_id, life, ok) ==
    /\ nextTok <= MaxTokens
    /\ LET r == DbSaveToken(tokensDb, nextTok, user_id, now + life, ok)
       IN /\ tokensDb' = r.db
          /\ issued' = IF r.result
                       THEN Put(issued, nextTok, [user_id |-> user_id, expiry |-> now + life])
                       ELSE issued
          /\ okCount' = IF r.result THEN Put(okCount, nextTok, 0) ELSE okCount
    /\ nextTok' = nextTok + 1
    /\ verOp' = NoOp
    /\ UNCHANGED <<now, cache, access_times, pend>>
    /\ UNCHANGED offToken

\* the TTL index on "expiry" (expireAfterSeconds=0): the store deletes expired tokens
StoreReap ==
    /\ \E tok \in DOMAIN tokensDb : tokensDb[tok].expiry < now
    /\ tokensDb' = [tok \in {x \in DOMAIN tokensDb : ~(tokensDb[x].expiry < now)} |-> tokensDb[tok]]
    /\ verOp' = NoOp
    /\ UNCHANGED <<now, cache, access_times, nextTok, pend, okCount, issued>>
    /\ UNCHANGED offToken

\* verify_token(token), up to its first suspension: the wrapper of @cached
\* reads the cache and returns on a hit; on a miss db.verify_token is sent
VerifyBegin(c, tok) ==
    /\ pend[c] = Idle
    /\ tok \in DOMAIN issued
    /\ okCount[tok] < MaxVerifies
    /\ LET r == MemGet(cache, access_times, VerifyKey(tok), now)
       IN /\ cache' = r.cache
          /\ access_times' = r.access
          /\ IF r.result # NoneVal
             THEN /\ verOp' = [op |-> "verify", token |-> tok, result |-> r.result,
                               t |-> now, hit |-> TRUE, store_ok |-> TRUE]
                  /\ okCount' = [okCount EXCEPT ![tok] = @ + 1]
                  /\ pend' = pend
             ELSE /\ verOp' = NoOp
                  /\ okCount' = okCount
                  /\ pend' = [pend EXCEPT ![c] = [fn |-> "verify", token |-> tok, t |-> now]]
    /\ UNCHANGED <<now, tokensDb, nextTok, issued>>
    /\ UNCHANGED offToken

\* verify_token(token) resumed: the store answers (or fails), the wrapper
\* stores the result with ttl 60 and returns it
VerifyFinish(c, ok) ==
    /\ pend[c].fn = "verify"
    /\ LET tok == pend[c].token
           r == DbVerifyToken(tokensDb, tok, pend[c].t, ok)
           m == MemSet(cache, access_times, VerifyKey(tok), r.result, VerifyTtl, now)
       IN /\ tokensDb' = r.db
          /\ cache' = m.cache
          /\ access_times' = m.access
          /\ verOp' = [op |-> "verify", token |-> tok, result |-> r.result,
                       t |-> pend[c].t, hit |-> FALSE, store_ok |-> ok]
          /\ okCount' = IF r.result # NoneVal
                        THEN [okCount EXCEPT ![tok] = @ + 1] ELSE okCount
    /\ pend' = [pend EXCEPT ![c] = Idle]
    /\ UNCHANGED <<now, nextTok, issued>>
    /\ UNCHANGED offToken

TickVerify ==
    /\ now + TickSeconds <= VerifyMaxTime
    /\ now' = now + TickSeconds
    /\ verOp' = NoOp
    /\ UNCHANGED <<cache, access_times, tokensDb, nextTok, pend, okCount, issued>>
    /\ UNCHANGED offToken

NextVerify ==
    \/ \E u \in Owners, life \in Lifetimes, ok \in BOOLEAN : StoreSaveToken(u, life, ok)
    \/ StoreReap
    \/ \E c \in Callers, tok \in 1..MaxTokens : VerifyBegin(c, tok)
    \/ \E c \in Callers, ok \in BOOLEAN : VerifyFinish(c, ok)
    \/ TickVerify

(***************************************************************************)
(* generate_token, refresh_token and post_init                             *)
(***************************************************************************)
GenKey(user_id) == <<"token_gen", user_id>>
PreloadKey == <<"valid_system_token">>

\* DatabaseManager.get_valid_token at time t: the unexpired token of owner 0
\* with the latest expiry, or NoneVal (also when the store fails)
DbGetValidToken(db, t, ok) ==
    LET valid == {tok \in DOMAIN db : db[tok].user_id = 0 /\ Unexpired(db[tok], t)}
    IN IF ok /\ valid # {}
       THEN CHOOSE tok \in valid : \A o \in valid : db[o].expiry <= db[tok].expiry
       ELSE NoneVal

\* "if not success: return None, None" comes before the messages to the
\* admins and to the database channel
NotifiesAlways(saved) == TRUE
Notifies(saved) == saved

\* generate_token(user_id, context) through the wrapper of @cached, the store
\* accepting the insert or failing:
\* [result, hit, notified, cache, access, db, nextTok]
Generate(c, a, db, nxt, user_id, t, ok) ==
    LET g == MemGet(c, a, GenKey(user_id), t)
    IN IF g.result # NoneVal
       THEN [result |-> g.result, hit |-> TRUE, notified |-> FALSE,
             cache |-> g.cache, access |-> g.access, db |-> db, nextTok |-> nxt]
       ELSE LET sv == DbSaveToken(db, nxt, user_id, t + TokenDuration, ok)
                res == IF sv.result THEN nxt ELSE GenFailed
                m == MemSet(g.cache, g.access, GenKey(user_id), res, GenTtl, t)
            IN [result |-> res, hit |-> FALSE, notified |-> Notifies(sv.result),
                cache |-> m.cache, access |-> m.access, db |-> sv.db, nextTok |-> nxt + 1]

\* if expiry - current_time > timedelta(hours=1): return
StillFreshInclusive(expiry, t) == expiry - t >= MarginSeconds
StillFresh(expiry, t) == expiry - t > MarginSeconds

\* refresh_token at time t, its store calls succeeding or failing:
\* [cache, access, db, nextTok]
RefreshKeepingMemo(c, a, db, nxt, t, okLookup, okSave) ==
    LET info == DbGetValidToken(db, t, okLookup)
    IN IF info # NoneVal /\ StillFresh(db[info].expiry, t)
       THEN [cache |-> c, access |-> a, db |-> db, nextTok |-> nxt]
       ELSE LET g == Generate(c, a, db, nxt, 0, t, okSave)
            IN [cache |-> g.cache, access |-> g.access, db |-> g.db, nextTok |-> g.nextTok]
RefreshToken(c, a, db, nxt, t, okLookup, okSave) ==
    LET info == DbGetValidToken(db, t, okLookup)
    IN IF info # NoneVal /\ StillFresh(db[info].expiry, t)
       THEN [cache |-> c, access |-> a, db |-> db, nextTok |-> nxt]
       ELSE LET d == MemDelete(c, a, GenKey(0))
                g == Generate(d.cache, d.access, db, nxt, 0, t, okSave)
            IN [cache |-> g.cache, access |-> g.access, db |-> g.db, nextTok |-> g.nextTok]

\* the unexpired tokens of owner 0
ValidShared(db, t) == {tok \in DOMAIN db : db[tok].user_id = 0 /\ db[tok].expiry > t}

\* the latest expiry among the unexpired tokens of owner 0, NoneVal if none
LatestSharedExpiry(db, t) ==
    IF ValidShared(db, t) = {} THEN NoneVal
    ELSE LET tok == CHOOSE x \in ValidShared(db, t) :
                        \A o \in ValidShared(db, t) : db[o].expiry <= db[x].expiry
         IN db[tok].expiry

InitRefreshVars ==
    /\ boot = "boot"
    /\ next_run = NoneVal
    /\ refOp = NoOp
    /\ storeFailures = 0

\* no request in progress, no batch being delivered
InitBatchVars ==
    /\ batch_files = <<>>
    /\ chunk_at = 0
    /\ file_results = <<>>
    /\ item_at = 1
    /\ sent_messages = <<>>
    /\ missing_files = <<>>
    /\ fate = <<>>

InitRequestVars ==
    /\ rpc = "idle"
    /\ ruser = NoneVal
    /\ rargs = FALSE
    /\ depth = 0
    /\ events = <<>>
    /\ outcome = "none"
    /\ lookups = <<>>

InitAccessVars ==
    /\ accOp = NoOp
    /\ freshFor = {}
    /\ accCalls = 0

\* coroutines that may call wait_for_tokens at once
Waiters == {1, 2}
\* the two objects that own a background loop
Components == {"cache", "limiter"}

InitWaitVars ==
    waiters = [w \in Waiters |-> [pc |-> "idle", cost |-> 0]]

InitLifeVars ==
    /\ stop_pc = [c \in Components |-> "idle"]
    /\ stopped = [c \in Components |-> FALSE]
    /\ lifeOp = NoOp
    /\ loops = [c \in Components |-> 0]

\* the handlers of bot.py decorated with @rate_limited
Decorated == {"start_command", "send_file", "search_files"}

InitDecoVars ==
    invoked = [h \in Decorated |-> [u \in Users |-> <<>>]]

InitBanVars ==
    /\ bannedDb = {}
    /\ ban_pc = "idle"
    /\ banOp = NoOp

\* coroutines that use the connection pool
PoolClients == {1, 2, 3}

InitPoolVars ==
    /\ pool_q = 0
    /\ created_connections = 0
    /\ pool_lock = NoneVal
    /\ pool_pc = [c \in PoolClients |-> "idle"]
    /\ open_conns = 0

InitOtherVars ==
    /\ InitBanVars
    /\ InitPoolVars

InitFanVars ==
    /\ fan_pc = "idle"
    /\ tasks = {}
    /\ sending = {}
    /\ processed = {}
    /\ delays = 0
    /\ completed = <<>>

InitMonVars ==
    /\ requests_total = 0
    /\ error_count = 0
    /\ monOp = NoOp

InitHandlerVars ==
    /\ InitWaitVars
    /\ InitLifeVars
    /\ InitMonVars
    /\ InitDecoVars
    /\ InitOtherVars
    /\ InitFanVars
    /\ verification = TRUE
    /\ InitRequestVars
    /\ InitBatchVars
    /\ InitAccessVars

Failed(ok) == IF ok THEN 0 ELSE 1

\* post_init: the background tasks are started, preload_cache memoizes the
\* valid shared token, refresh_token is scheduled (first run after 60 s) and
\* the initial shared token is generated unless a valid one exists.  No
\* handler or job runs before post_init returns.
PostInit(okPreload, okLookup, okSave) ==
    /\ boot = "boot"
    /\ boot' = "running"
    /\ cleanup_task' = "running"
    /\ cleanup_wake' = now
    /\ sweep_task' = "running"
    /\ sweep_wake' = now
    /\ next_run' = now + RefreshFirst
    /\ LET pre == DbGetValidToken(tokensDb, now, okPreload)
           m == IF pre # NoneVal
                THEN MemSet(cache, access_times, PreloadKey, pre, PreloadTtl, now)
                ELSE [cache |-> cache, access |-> access_times]
           info == DbGetValidToken(tokensDb, now, okLookup)
           g == Generate(m.cache, m.access, tokensDb, nextTok, 0, now, okSave)
       IN IF info = NoneVal
          THEN /\ cache' = g.cache
               /\ access_times' = g.access
               /\ tokensDb' = g.db
               /\ nextTok' = g.nextTok
               /\ issued' = [tok \in DOMAIN g.db |->
                               [user_id |-> g.db[tok].user_id, expiry |-> g.db[tok].expiry]]
               /\ storeFailures' = Failed(okPreload) + Failed(okLookup) + Failed(okSave)
          ELSE /\ cache' = m.cache
               /\ access_times' = m.access
               /\ UNCHANGED <<tokensDb, nextTok, issued>>
               /\ storeFailures' = Failed(okPreload) + Failed(okLookup)
    /\ storeFailures' <= MaxStoreFailures
    /\ refOp' = NoOp
    /\ UNCHANGED now
    /\ UNCHANGED offRefresh

\* one run of refresh_token at the current instant
RefreshRun(okLookup, okSave) ==
    LET r == RefreshToken(cache, access_times, tokensDb, nextTok, now, okLookup, okSave)
        tried == r.nextTok # nextTok
    IN /\ nextTok <= RefreshMaxTokens
       /\ cache' = r.cache
       /\ access_times' = r.access
       /\ tokensDb' = r.db
       /\ nextTok' = r.nextTok
       /\ issued' = [tok \in DOMAIN issued \cup DOMAIN r.db |->
                       IF tok \in DOMAIN issued THEN issued[tok]
                       ELSE [user_id |-> r.db[tok].user_id, expiry |-> r.db[tok].expiry]]
       /\ refOp' = [op |-> "refresh",
                    store_ok |-> okLookup /\ (tried => okSave),
                    latest |-> LatestSharedExpiry(tokensDb, now),
                    after_issue |-> (refOp.op = "refresh" /\ refOp.new # {}),
                    new |-> {[user_id |-> r.db[tok].user_id, expiry |-> r.db[tok].expiry] :
                               tok \in DOMAIN r.db \ DOMAIN tokensDb}]
       /\ storeFailures' = storeFailures + Failed(okLookup) + (IF tried THEN Failed(okSave) ELSE 0)
       /\ storeFailures' <= MaxStoreFailures

\* refresh_token run at any instant after post_init
RefreshCall(okLookup, okSave) ==
    /\ boot = "running"
    /\ RefreshRun(okLookup, okSave)
    /\ UNCHANGED <<now, boot, next_run, cleanup_task, cleanup_wake,
                   sweep_task, sweep_wake>>
    /\ UNCHANGED offRefresh

\* the job queue runs refresh_token when it is due and schedules the next run
RefreshJob(okLookup, okSave) ==
    /\ boot = "running"
    /\ now = next_run
    /\ RefreshRun(okLookup, okSave)
    /\ next_run' = next_run + RefreshInterval
    /\ UNCHANGED <<now, boot, cleanup_task, cleanup_wake,
                   sweep_task, sweep_wake>>
    /\ UNCHANGED offRefresh

\* the TTL index of the tokens collection, in the refresh model
RefreshReap ==
    /\ \E tok \in DOMAIN tokensDb : tokensDb[tok].expiry < now
    /\ tokensDb' = [tok \in {x \in DOMAIN tokensDb : ~(tokensDb[x].expiry < now)} |-> tokensDb[tok]]
    /\ refOp' = NoOp
    /\ UNCHANGED <<now, cache, access_times, nextTok, issued, boot, next_run, storeFailures,
                   cleanup_task, cleanup_wake, sweep_task, sweep_wake>>
    /\ UNCHANGED offRefresh

\* the refresh clock shows the hours around startup, around the job's run at
\* TOKEN_DURATION / 2 and from the margin before expiry on, and the minute
\* after each of them
ObservedHours ==
    {h \in 0..RefreshMaxHours :
        h <= 2 \/ h = TokenDurationHours \div 2 \/ h >= TokenDurationHours - 2}
NextHour(t) ==
    {h * HourSeconds : h \in {x \in ObservedHours :
        /\ x * HourSeconds > t
        /\ \A y \in ObservedHours : y * HourSeconds > t => x <= y}}
GridNext(t) == IF t % HourSeconds = 0 THEN {t + 60} \cup NextHour(t) ELSE NextHour(t)

TickRefresh ==
    /\ boot = "running"
    /\ \E t \in GridNext(now) :
          /\ t <= RefreshMaxHours * HourSeconds + 60
          /\ now' = t
    /\ refOp' = NoOp
    /\ UNCHANGED <<cache, access_times, tokensDb, nextTok, issued, boot, next_run, storeFailures,
                   cleanup_task, cleanup_wake, sweep_task, sweep_wake>>
    /\ UNCHANGED offRefresh

\* the clock of the scheduled model: a due job runs at its instant
TickSchedule ==
    /\ boot = "running"
    /\ now < next_run
    /\ \E t \in GridNext(now) :
          /\ t <= RefreshMaxHours * HourSeconds + 60
          /\ t <= next_run
          /\ now' = t
    /\ refOp' = NoOp
    /\ UNCHANGED <<cache, access_times, tokensDb, nextTok, issued, boot, next_run, storeFailures,
                   cleanup_task, cleanup_wake, sweep_task, sweep_wake>>
    /\ UNCHANGED offRefresh

NextRefresh ==
    \/ \E okPreload \in BOOLEAN, okLookup \in BOOLEAN, okSave \in BOOLEAN :
          PostInit(okPreload, okLookup, okSave)
    \/ \E okLookup \in BOOLEAN, okSave \in BOOLEAN : RefreshCall(okLookup, okSave)
    \/ RefreshReap
    \/ TickRefresh

NextSchedule ==
    \/ \E okPreload \in BOOLEAN, okLookup \in BOOLEAN, okSave \in BOOLEAN :
          PostInit(okPreload, okLookup, okSave)
    \/ \E okLookup \in BOOLEAN, okSave \in BOOLEAN : RefreshJob(okLookup, okSave)
    \/ RefreshReap
    \/ TickSchedule

(***************************************************************************)
(* MemoryCache operations                                                  *)
(***************************************************************************)
\* cache.get(key)
CacheGet(key) ==
    LET r == MemGet(cache, access_times, key, now)
    IN /\ cache' = r.cache
       /\ access_times' = r.access
       /\ cacheOp' = [op |-> "get", key |-> key, result |-> r.result]
       /\ UNCHANGED offCache
       /\ UNCHANGED <<now, cleanup_task, cleanup_wake, setInfo>>

\* cache.set(key, value, ttl); ttl = NoneVal stands for the omitted argument
CacheSet(key, value, ttl) ==
    LET eff == IF ttl = NoneVal THEN DefaultTtl ELSE ttl
        r == MemSet(cache, access_times, key, value, eff, now)
    IN /\ cache' = r.cache
       /\ access_times' = r.access
       /\ cacheOp' = [op |-> "set", key |-> key, result |-> NoneVal,
                      value |-> value, ttl |-> ttl]
       /\ setInfo' = [setInfo EXCEPT ![key] =
                        [live |-> TRUE, t0 |-> now, ttl |-> eff, value |-> value]]
       /\ UNCHANGED offCache
       /\ UNCHANGED <<now, cleanup_task, cleanup_wake>>

\* cache.delete(key)
CacheDelete(key) ==
    LET r == MemDelete(cache, access_times, key)
    IN /\ cache' = r.cache
       /\ access_times' = r.access
       /\ cacheOp' = [op |-> "delete", key |-> key, result |-> r.result]
       /\ setInfo' = [setInfo EXCEPT ![key] = NoSet]
       /\ UNCHANGED offCache
       /\ UNCHANGED <<now, cleanup_task, cleanup_wake>>

\* cache.clear()
CacheClear ==
    /\ cache # <<>>
    /\ cache' = <<>>
    /\ access_times' = <<>>
    /\ cacheOp' = [op |-> "clear"]
    /\ setInfo' = [k \in CacheKeys |-> NoSet]
    /\ UNCHANGED <<now, cleanup_task, cleanup_wake>>
    /\ UNCHANGED offCache

\* cache.start(): creates the cleanup task unless one is alive
CacheStart ==
    /\ cleanup_task = "none"
    /\ cleanup_task' = "running"
    /\ cleanup_wake' = now
    /\ cacheOp' = NoOp
    /\ UNCHANGED <<now, cache, access_times, setInfo>>
    /\ UNCHANGED offCache

\* cache.stop(): cancels the task and forgets it
CacheStop ==
    /\ cleanup_task = "running"
    /\ cleanup_task' = "none"
    /\ cacheOp' = NoOp
    /\ UNCHANGED <<now, cache, access_times, cleanup_wake, setInfo>>
    /\ UNCHANGED offCache

\* one reclamation cycle of the running loop, then asyncio.sleep(60)
CacheCleanupCycle ==
    /\ cleanup_task = "running"
    /\ now >= cleanup_wake
    /\ LET r == CleanupPass(cache, access_times, now)
           gone == DOMAIN cache \ DOMAIN r.cache
           expired == {k \in gone : now > cache[k].expires_at}
       IN /\ cache' = r.cache
          /\ access_times' = r.access
          /\ cacheOp' = [op |-> "cleanup",
                         pre_keys |-> DOMAIN cache,
                         expired |-> expired,
                         evicted |-> {[key |-> k, t |-> AtTimeOf(access_times, k)] :
                                        k \in gone \ expired}]
          /\ setInfo' = [k \in CacheKeys |->
                           IF k \in gone \ expired THEN NoSet ELSE setInfo[k]]
    /\ cleanup_wake' = now + CleanupSleep
    /\ UNCHANGED <<now, cleanup_task>>
    /\ UNCHANGED offCache

TickCache ==
    /\ now + TickSeconds <= CacheMaxTime
    /\ now' = now + TickSeconds
    /\ cacheOp' = NoOp
    /\ UNCHANGED <<cache, access_times, cleanup_task, cleanup_wake, setInfo>>
    /\ UNCHANGED offCache

InitCache ==
    /\ now = 0
    /\ InitCacheVars
    /\ InitLimiterVars
    /\ InitBucketVars
    /\ InitTokenVars
    /\ InitRefreshVars
    /\ InitHandlerVars

NextCache ==
    \/ \E k \in CacheKeys : CacheGet(k)
    \/ \E k \in CacheKeys, v \in CacheValues, ttl \in CacheTtls \cup {NoneVal} : CacheSet(k, v, ttl)
    \/ \E k \in CacheKeys : CacheDelete(k)
    \/ CacheClear
    \/ CacheStart
    \/ CacheStop
    \/ CacheCleanupCycle
    \/ TickCache

SpecCache == InitCache /\ [][NextCache]_vars

InitLimiter ==
    /\ now = 0
    /\ InitCacheVars
    /\ InitLimiterVars
    /\ InitBucketVars
    /\ InitTokenVars
    /\ InitRefreshVars
    /\ InitHandlerVars

SpecLimiter == InitLimiter /\ [][NextLimiter]_vars

(***************************************************************************)
(* Claims about MemoryCache, checked under SpecCache.                      *)
(***************************************************************************)
\* the last operation was a get of a key whose last set still stands (no
\* later set, delete, clear or capacity eviction of that key)
GetAfterSet == cacheOp.op = "get" /\ setInfo[cacheOp.key].live
SinceSet == now - setInfo[cacheOp.key].t0

\* C1 (as amended): a get issued d seconds after set(key, value, ttl), the
\* set still standing, returns value when d <= ttl and absent when d > ttl,
\* whether or not a reclamation cycle ran in between.
C1_TtlInclusive ==
    GetAfterSet =>
        IF SinceSet <= setInfo[cacheOp.key].ttl
        THEN cacheOp.result = setInfo[cacheOp.key].value
        ELSE cacheOp.result = NoneVal

\* C1 as claimed: value when d < ttl, absent when d >= ttl.
C1_TtlExclusive ==
    GetAfterSet =>
        IF SinceSet < setInfo[cacheOp.key].ttl
        THEN cacheOp.result = setInfo[cacheOp.key].value
        ELSE cacheOp.result = NoneVal

\* a get exactly ttl seconds after the set, and one later than that
C1_Witness ==
    /\ GetAfterSet
    /\ SinceSet = setInfo[cacheOp.key].ttl
    /\ cacheOp.result = setInfo[cacheOp.key].value
    /\ \E k \in CacheKeys : setInfo[k].live /\ now - setInfo[k].t0 > setInfo[k].ttl
                            /\ k \notin DOMAIN cache

\* C2: after every completed reclamation cycle size <= max_size; no expired
\* entry is left; when more than max_size entries survived expiry, exactly
\* (survivors - max_size) of them were evicted and each evicted entry was
\* accessed no later than every entry kept; no other unexpired entry is removed.
C2_CapacityBound ==
    cacheOp.op = "cleanup" =>
        LET survivors == cacheOp.pre_keys \ cacheOp.expired
            evictedKeys == {e.key : e \in cacheOp.evicted}
        IN /\ Cardinality(DOMAIN cache) <= MaxSize
           /\ \A k \in DOMAIN cache : ~(now > cache[k].expires_at)
           /\ DOMAIN cache = survivors \ evictedKeys
           /\ IF Cardinality(survivors) > MaxSize
              THEN Cardinality(evictedKeys) = Cardinality(survivors) - MaxSize
              ELSE evictedKeys = {}
           /\ \A e \in cacheOp.evicted : \A k \in DOMAIN cache :
                 e.t <= AtTimeOf(access_times, k)

\* a cycle that evicted for capacity an entry older than one it kept
C2_Witness ==
    /\ cacheOp.op = "cleanup"
    /\ \E e \in cacheOp.evicted : \E k \in DOMAIN cache :
          e.t < AtTimeOf(access_times, k)

(***************************************************************************)
(* Claims about UserRateLimiter, checked under SpecLimiter.                *)
(***************************************************************************)
\* the is_allowed calls of u that returned true with a timestamp in [lo, hi]
AdmittedIn(u, lo, hi) ==
    {i \in DOMAIN calls[u] : calls[u][i].ok /\ lo <= calls[u][i].t /\ calls[u][i].t <= hi}

\* C3: for every identity and every trailing interval of window_seconds
\* (closed at both ends), under any interleaving of calls and sweeps, at most
\* max_requests is_allowed calls with a timestamp in it returned true.
C3_SlidingWindow ==
    \A u \in Users : \A T \in 0..now :
        Cardinality(AdmittedIn(u, T - WindowSeconds, T)) <= MaxRequests

\* an identity denied at the limit, and admitted again after its window aged out
C3_Witness ==
    \E u \in Users :
        /\ \E i \in DOMAIN calls[u] : ~calls[u][i].ok
        /\ Cardinality(AdmittedIn(u, now - WindowSeconds, now)) = MaxRequests
        /\ Cardinality(AdmittedIn(u, 0, now)) > MaxRequests

\* calls i .. i+MaxRequests of u start from an empty window (every earlier
\* admitted timestamp is older than the window at call i) and all fall within
\* less than window_seconds
BurstAt(u, i) ==
    /\ i >= 1
    /\ i + MaxRequests <= Len(calls[u])
    /\ \A j \in 1..(i - 1) : calls[u][j].ok => calls[u][j].t < calls[u][i].t - WindowSeconds
    /\ calls[u][i + MaxRequests].t - calls[u][i].t < WindowSeconds

\* C4: of max_requests + 1 calls made from an empty window within less than
\* window_seconds the first max_requests return true and the last returns
\* false; get_reset_time called after them, while the first admitted call is
\* still in the window, returns that call's timestamp + window_seconds.
C4_LimitThenReset ==
    \A u \in Users :
        /\ \A i \in DOMAIN calls[u] :
              BurstAt(u, i) =>
                  /\ \A j \in 0..(MaxRequests - 1) : calls[u][i + j].ok
                  /\ ~calls[u][i + MaxRequests].ok
        /\ LET i == Len(calls[u]) - MaxRequests
           IN (/\ limOp.op = "get_reset_time"
               /\ limOp.user = u
               /\ BurstAt(u, i)
               /\ now - calls[u][i].t <= WindowSeconds)
              => limOp.result = calls[u][i].t + WindowSeconds

\* get_reset_time right after a burst whose calls were not all at one instant
C4_Witness ==
    \E u \in Users :
        LET i == Len(calls[u]) - MaxRequests
        IN /\ limOp.op = "get_reset_time"
           /\ limOp.user = u
           /\ BurstAt(u, i)
           /\ calls[u][Len(calls[u])].t > calls[u][i].t
           /\ limOp.result = calls[u][i].t + WindowSeconds
           /\ limOp.result > now

InitBucket ==
    /\ now = 0
    /\ InitCacheVars
    /\ InitLimiterVars
    /\ InitBucketVars
    /\ InitTokenVars
    /\ InitRefreshVars
    /\ InitHandlerVars

SpecBucket == InitBucket /\ [][NextBucket]_vars

(***************************************************************************)
(* Claims about RateLimiter, checked under SpecBucket.                     *)
(***************************************************************************)
\* what the acquire just made should have refilled the bucket to
Refilled ==
    IF bucketOp.before + bucketOp.time_passed * RefillRate <= BucketMaxTokens
    THEN bucketOp.before + bucketOp.time_passed * RefillRate
    ELSE BucketMaxTokens

\* C5: after any sequence of acquire calls 0 <= tokens <= max_tokens; a
\* successful acquire(cost) leaves the refilled amount minus cost, an
\* unsuccessful one leaves the refilled amount.
C5_Conservation ==
    /\ 0 <= tokens
    /\ tokens <= BucketMaxTokens
    /\ bucketOp.op = "acquire" =>
          IF bucketOp.ok THEN tokens = Refilled - bucketOp.cost
          ELSE tokens = Refilled

\* a refused acquire of an affordable cost, after a refill that hit the ceiling
C5_Witness ==
    /\ bucketOp.op = "acquire"
    /\ ~bucketOp.ok
    /\ bucketOp.cost <= BucketMaxTokens
    /\ bucketOp.time_passed > 0
    /\ tokens > 0

InitVerify ==
    /\ now = 0
    /\ InitCacheVars
    /\ InitLimiterVars
    /\ InitBucketVars
    /\ InitTokenVars
    /\ InitRefreshVars
    /\ InitHandlerVars

SpecVerify == InitVerify /\ [][NextVerify]_vars

(***************************************************************************)
(* Claims about verify_token, checked under SpecVerify.                    *)
(***************************************************************************)
\* C6: a verify_token(token) call made at time t (the store answering)
\* returns the owner when t is before the token's expiry and None from the
\* expiry on, also within 60 s of an earlier successful verification.
C6_TokenLifecycle ==
    (verOp.op = "verify" /\ verOp.store_ok) =>
        IF verOp.t < issued[verOp.token].expiry
        THEN verOp.result = issued[verOp.token].user_id
        ELSE verOp.result = NoneVal

\* C7: every verify_token call that returned an owner incremented the
\* token's used_count by one: a stored token verified successfully k times
\* has used_count k.
C7_MultiUseCount ==
    \A tok \in DOMAIN tokensDb : tokensDb[tok].used_count = okCount[tok]

\* the store as a previous run of the bot may have left it: empty, or
\* holding one shared token that is still valid
InitStore ==
    \/ /\ tokensDb = <<>>
       /\ nextTok = 1
       /\ issued = <<>>
    \/ \E r \in InitRemaining :
          /\ tokensDb = <<[user_id |-> 0, expiry |-> r, used_count |-> 0, last_used |-> NoneVal]>>
          /\ nextTok = 2
          /\ issued = <<[user_id |-> 0, expiry |-> r]>>

InitRefresh ==
    /\ now = 0
    /\ InitCacheVars
    /\ InitLimiterVars
    /\ InitBucketVars
    /\ InitStore
    /\ pend = [c \in Callers |-> Idle]
    /\ verOp = NoOp
    /\ okCount = <<>>
    /\ InitRefreshVars
    /\ InitHandlerVars

SpecRefresh == InitRefresh /\ [][NextRefresh]_vars

SpecSchedule == InitRefresh /\ [][NextSchedule]_vars

\* the shared token a run of refresh_token at time t issues
FreshShared(t) == [user_id |-> 0, expiry |-> t + TokenDuration]

\* the last step was a run of refresh_token
Refreshed == refOp.op = "refresh"

SinceIssue == now - (refOp.latest - TokenDuration)

\* C9 (as amended): with TOKEN_DURATION = 24 h and the margin of 1 h, a run of
\* refresh_token whose store calls succeed issues a new shared token at
\* exactly 23 h after the current one was issued and at 23 h 1 min, and
\* issues nothing at 22 h 59 min.
C9_BoundaryIssues ==
    (Refreshed /\ refOp.store_ok /\ refOp.latest # NoneVal) =>
        /\ SinceIssue = 23 * HourSeconds - 60 => refOp.new = {}
        /\ SinceIssue = 23 * HourSeconds => refOp.new = {FreshShared(now)}
        /\ SinceIssue = 23 * HourSeconds + 60 => refOp.new = {FreshShared(now)}

\* C9 (as stated): a run of refresh_token at 23 h after issue issues nothing,
\* a run at 23 h 1 min issues a new shared token.
C9_BoundaryKeeps ==
    (Refreshed /\ refOp.store_ok /\ refOp.latest # NoneVal) =>
        /\ SinceIssue = 23 * HourSeconds => refOp.new = {}
        /\ SinceIssue = 23 * HourSeconds + 60 => refOp.new = {FreshShared(now)}

\* refresh_token ran exactly 23 h after the shared token was issued and issued another
C9_Witness ==
    /\ Refreshed
    /\ refOp.store_ok
    /\ refOp.latest # NoneVal
    /\ SinceIssue = 23 * HourSeconds
    /\ refOp.new = {FreshShared(now)}

\* C10: once post_init has run, and as long as every store call has succeeded,
\* the store holds a shared token that has not expired.
C10_SharedTokenAvailable ==
    (boot = "running" /\ storeFailures = 0) => ValidShared(tokensDb, now) # {}

(***************************************************************************)
(* check_user_token, start_command and send_file                           *)
(***************************************************************************)
UserTokenKey(user_id) == <<"user_token", user_id>>
BanKey(user_id) == <<"ban_status", user_id>>

\* True and False as the cache stores them
BoolVal(b) == IF b THEN 1 ELSE 0

\* DatabaseManager.check_user_token with the query built at time t
DbCheckUserToken(db, user_id, t, ok) ==
    ok /\ \E tok \in DOMAIN db :
             /\ db[tok].user_id = user_id \/ db[tok].user_id = 0
             /\ Unexpired(db[tok], t)

\* check_user_token(user_id) through the wrapper of @cached:
\* [result, hit, cache, access]
CheckUserToken(c, a, db, user_id, t, ok) ==
    LET g == MemGet(c, a, UserTokenKey(user_id), t)
    IN IF g.result # NoneVal
       THEN [result |-> g.result = BoolVal(TRUE), hit |-> TRUE,
             cache |-> g.cache, access |-> g.access]
       ELSE LET res == DbCheckUserToken(db, user_id, t, ok)
                m == MemSet(g.cache, g.access, UserTokenKey(user_id), BoolVal(res), CheckTtl, t)
            IN [result |-> res, hit |-> FALSE, cache |-> m.cache, access |-> m.access]

\* the ban check of the handlers: [banned, cache, access]
BanCheck(c, a, user_id, t, banned, ok) ==
    LET g == MemGet(c, a, BanKey(user_id), t)
    IN IF g.result # NoneVal
       THEN [banned |-> g.result = BoolVal(TRUE), cache |-> g.cache, access |-> g.access]
       ELSE IF ok
            THEN LET m == MemSet(g.cache, g.access, BanKey(user_id), BoolVal(banned), BanTtl, t)
                 IN [banned |-> banned, cache |-> m.cache, access |-> m.access]
            ELSE [banned |-> FALSE, cache |-> g.cache, access |-> g.access]

\* the request has reached ev
Reach(ev) == events' = Append(events, ev)

\* the handler returns
EndRequest(how) ==
    /\ rpc' = "idle"
    /\ outcome' = how

\* the wrapper of @rate_limited around start_command (depth 1) and around the
\* send_file it calls (depth 2)
RateLimitedEntry(u, d) ==
    LET r == IsAllowed(user_requests, u, now)
    IN /\ user_requests' = r.ur
       /\ depth' = d
       /\ IF r.result
          THEN /\ events' = (IF d = 1 THEN <<>> ELSE events) \o <<"admitted">>
               /\ rpc' = "ban"
               /\ outcome' = "running"
          ELSE /\ events' = (IF d = 1 THEN <<>> ELSE events) \o <<"denied">>
               /\ EndRequest("rate_limited")

\* /start or /start <reference> arrives: monitored, then rate_limited, then
\* start_command
StartCommand(u, hasRef) ==
    /\ rpc = "idle"
    /\ ruser' = u
    /\ rargs' = hasRef
    /\ RateLimitedEntry(u, 1)
    /\ lookups' = <<>>
    /\ batch_files' = <<>>
    /\ chunk_at' = 0
    /\ file_results' = <<>>
    /\ item_at' = 1
    /\ sent_messages' = <<>>
    /\ missing_files' = <<>>
    /\ fate' = <<>>
    /\ UNCHANGED <<now, cache, access_times, tokensDb, nextTok, issued, verification>>
    /\ UNCHANGED offRequest

\* await send_file(update, context) of start_command
CallSendFile ==
    /\ rpc = "send_file"
    /\ RateLimitedEntry(ruser, 2)
    /\ UNCHANGED <<now, cache, access_times, tokensDb, nextTok, issued, verification, ruser, rargs,
                   lookups>>
    /\ UNCHANGED batchVars
    /\ UNCHANGED offRequest

\* where a handler goes once the requester has passed its checks
AfterChecks == IF depth = 1 THEN "send_file" ELSE "lookup"

\* the requester has passed the checks: without arguments start_command
\* replies with the welcome message
PassChecks ==
    IF depth = 1 /\ ~rargs
    THEN EndRequest("welcome")
    ELSE /\ rpc' = AfterChecks
         /\ UNCHANGED outcome

\* the ban check of start_command and of send_file
HandlerBanCheck(banned, ok) ==
    /\ rpc = "ban"
    /\ LET b == BanCheck(cache, access_times, ruser, now, banned, ok)
       IN /\ cache' = b.cache
          /\ access_times' = b.access
          /\ IF b.banned
             THEN /\ EndRequest("banned")
                  /\ UNCHANGED events
             ELSE /\ IF verification
                     THEN /\ rpc' = "token"
                          /\ UNCHANGED outcome
                     ELSE PassChecks
                  /\ UNCHANGED events
    /\ UNCHANGED <<now, user_requests, tokensDb, nextTok, issued, verification, ruser, rargs, depth,
                   lookups>>
    /\ UNCHANGED batchVars
    /\ UNCHANGED offRequest

\* the token check of start_command and of send_file; without a valid token
\* the requester is sent a link to a token generated for them
HandlerTokenCheck(okCheck, okSave) ==
    /\ rpc = "token"
    /\ LET ck == CheckUserToken(cache, access_times, tokensDb, ruser, now, okCheck)
           g == Generate(ck.cache, ck.access, tokensDb, nextTok, ruser, now, okSave)
       IN IF ck.result
          THEN /\ cache' = ck.cache
               /\ access_times' = ck.access
               /\ Reach("token_ok")
               /\ PassChecks
               /\ UNCHANGED <<tokensDb, nextTok, issued>>
          ELSE /\ nextTok <= RefreshMaxTokens
               /\ cache' = g.cache
               /\ access_times' = g.access
               /\ tokensDb' = g.db
               /\ nextTok' = g.nextTok
               /\ issued' = [tok \in DOMAIN issued \cup DOMAIN g.db |->
                               IF tok \in DOMAIN issued THEN issued[tok]
                               ELSE [user_id |-> g.db[tok].user_id, expiry |-> g.db[tok].expiry]]
               /\ Reach("token_fail")
               /\ EndRequest("need_token")
    /\ UNCHANGED <<now, user_requests, verification, ruser, rargs, depth, lookups>>
    /\ UNCHANGED batchVars
    /\ UNCHANGED offRequest

\* "if file_data:" of send_file
ItemFoundIfSendable(item) == item = "found"
ItemFound(item) == item # "nothing"

\* DatabaseManager.get_file(file_id): the document the collection holds for
\* the id, None if it holds none and None if the store call raised
DbGetFile(stored, ok) == IF ok THEN stored ELSE "nothing"

\* db.get_file(file_id), then the single file is sent, or db.get_batch(file_id)
\* is asked
ResolveReference(stored, okItem, sendOk, batch) ==
    /\ rpc = "lookup"
    /\ LET item == DbGetFile(stored, okItem)
           looked == [what |-> "item", result |-> item, stored |-> stored]
       IN
       IF ItemFound(item)
       THEN /\ lookups' = <<looked>>
            /\ IF item = "no_message_id"
               THEN /\ Reach("lookup_item")
                    /\ EndRequest("invalid_file")
               ELSE /\ events' = events \o <<"lookup_item", "deliver">>
                    /\ EndRequest(IF sendOk THEN "sent" ELSE "send_failed")
            /\ UNCHANGED batchVars
       ELSE /\ lookups' = <<looked,
                            [what |-> "batch",
                             result |-> IF batch = NoneVal THEN "nothing" ELSE "found"]>>
            /\ events' = events \o <<"lookup_item", "lookup_batch">>
            /\ IF batch = NoneVal
               THEN /\ EndRequest("not_found")
                    /\ UNCHANGED batchVars
               ELSE IF batch = 0
               THEN /\ EndRequest("invalid_batch")
                    /\ UNCHANGED batchVars
               ELSE /\ rpc' = "gather"
                    /\ batch_files' = [i \in 1..batch |-> i]
                    /\ chunk_at' = 0
                    /\ file_results' = <<>>
                    /\ item_at' = 1
                    /\ sent_messages' = <<>>
                    /\ missing_files' = <<>>
                    /\ fate' = <<>>
                    /\ UNCHANGED outcome
    /\ UNCHANGED <<now, cache, access_times, user_requests, tokensDb, nextTok, issued,
                   verification, ruser, rargs, depth>>
    /\ UNCHANGED offRequest

\* batch_chunk = batch_files[i:i + batch_size]
BatchChunkToTheEnd(files, i) == SubSeq(files, i + 1, Len(files))
BatchChunk(files, i) ==
    SubSeq(files, i + 1, IF i + ChunkSize <= Len(files) THEN i + ChunkSize ELSE Len(files))

\* await asyncio.gather(*tasks, return_exceptions=True): an exception of a
\* lookup is returned in its place, none is raised
GatherFailFast(results) ==
    [raised |-> \E k \in DOMAIN results : results[k] = "raised", results |-> results]
Gather(results) == [raised |-> FALSE, results |-> results]

\* the lookups of one chunk are issued together and awaited
BatchGather(results) ==
    /\ rpc = "gather"
    /\ DOMAIN results = 1..Len(BatchChunk(batch_files, chunk_at))
    /\ LET g == Gather(results)
       IN IF g.raised
          THEN /\ EndRequest("aborted")
               /\ UNCHANGED <<file_results, item_at>>
          ELSE /\ file_results' = g.results
               /\ item_at' = 1
               /\ rpc' = "items"
               /\ UNCHANGED outcome
    /\ UNCHANGED <<now, cache, access_times, user_requests, tokensDb, nextTok, issued,
                   verification, ruser, rargs, depth, events, lookups>>
    /\ UNCHANGED <<batch_files, chunk_at, sent_messages, missing_files, fate>>
    /\ UNCHANGED offRequest

\* the body of "for fid, file_data in zip(batch_chunk, file_results)": where
\* the item goes
ItemStepDropsSendFailure(result, sendOk) ==
    IF result = "found" THEN (IF sendOk THEN "sent" ELSE "dropped") ELSE "missing"
ItemStep(result, sendOk) ==
    IF result = "raised" THEN "missing"
    ELSE IF result = "found"
         THEN (IF sendOk THEN "sent" ELSE "missing")
         ELSE "missing"

\* one item of the chunk is processed; after the last item of the chunk the
\* loop goes to the next chunk, after the last chunk the handler returns
BatchItem(sendOk) ==
    /\ rpc = "items"
    /\ LET chunk == BatchChunk(batch_files, chunk_at)
           fid == chunk[item_at]
           result == file_results[item_at]
           step == ItemStep(result, sendOk)
       IN /\ sent_messages' = IF step = "sent" THEN Append(sent_messages, fid) ELSE sent_messages
          /\ missing_files' = IF step = "missing" THEN Append(missing_files, fid) ELSE missing_files
          /\ fate' = Append(fate, [fid |-> fid,
                                   how |-> IF result # "found" THEN result
                                           ELSE IF sendOk THEN "sent" ELSE "send_failed"])
          /\ events' = IF result = "found" /\ ~(\E k \in DOMAIN events : events[k] = "deliver")
                       THEN Append(events, "deliver") ELSE events
          /\ IF item_at < Len(chunk)
             THEN /\ item_at' = item_at + 1
                  /\ UNCHANGED <<rpc, outcome, chunk_at, file_results>>
             ELSE IF chunk_at + ChunkSize < Len(batch_files)
             THEN /\ chunk_at' = chunk_at + ChunkSize
                  /\ rpc' = "gather"
                  /\ item_at' = 1
                  /\ file_results' = <<>>
                  /\ UNCHANGED outcome
             ELSE /\ EndRequest("batch_done")
                  /\ UNCHANGED <<chunk_at, file_results, item_at>>
    /\ UNCHANGED <<now, cache, access_times, user_requests, tokensDb, nextTok, issued,
                   verification, ruser, rargs, depth, batch_files, lookups>>
    /\ UNCHANGED offRequest

NextRequest ==
    \/ \E u \in Requesters, hasRef \in BOOLEAN : StartCommand(u, hasRef)
    \/ CallSendFile
    \/ \E banned \in BOOLEAN, ok \in BOOLEAN : HandlerBanCheck(banned, ok)
    \/ \E okCheck \in BOOLEAN, okSave \in BOOLEAN : HandlerTokenCheck(okCheck, okSave)
    \/ \E stored \in ItemLookups, okItem \in BOOLEAN, sendOk \in BOOLEAN,
          batch \in {NoneVal} \cup (0..RequestBatchLen) :
          ResolveReference(stored, okItem, sendOk, batch)
    \/ \E n \in 1..ChunkSize : \E results \in [1..n -> ChunkLookups] : BatchGather(results)
    \/ \E sendOk \in BOOLEAN : BatchItem(sendOk)

\* the bot is running, one request at a time is followed through its handlers
InitRequest ==
    /\ now = 0
    /\ InitCacheVars
    /\ InitLimiterVars
    /\ InitBucketVars
    /\ InitStore
    /\ pend = [c \in Callers |-> Idle]
    /\ verOp = NoOp
    /\ okCount = <<>>
    /\ InitRefreshVars
    /\ verification \in BOOLEAN
    /\ InitRequestVars
    /\ InitBatchVars
    /\ InitAccessVars
    /\ InitWaitVars
    /\ InitLifeVars
    /\ InitMonVars
    /\ InitDecoVars
    /\ InitOtherVars
    /\ InitFanVars

SpecRequest == InitRequest /\ [][NextRequest]_vars

\* requests of a requester who is not banned and holds a valid token, for
\* references that name batches; the store answers the checks
NextBatch ==
    \/ \E u \in Requesters : StartCommand(u, TRUE)
    \/ CallSendFile
    \/ HandlerBanCheck(FALSE, TRUE)
    \/ HandlerTokenCheck(TRUE, TRUE)
    \/ \E batch \in 1..MaxBatchLen : ResolveReference("nothing", TRUE, TRUE, batch)
    \/ \E n \in 1..ChunkSize : \E results \in [1..n -> ChunkLookups] : BatchGather(results)
    \/ \E sendOk \in BOOLEAN : BatchItem(sendOk)

InitBatch ==
    /\ InitRequest
    /\ verification
    /\ tokensDb # <<>>

SpecBatch == InitBatch /\ [][NextBatch]_vars

\* the identifiers of the items of a sequence of fates
FidsOf(fates) == [k \in 1..Len(fates) |-> fates[k].fid]

Delivered(f) == f.how = "sent"
NotDelivered(f) == f.how \in {"raised", "nothing", "no_message_id", "send_failed"}

\* the handler has returned from the delivery of a batch
BatchReturned == rpc = "idle" /\ batch_files # <<>>

\* C11: batch delivery processes every item to the end; every item is in
\* exactly one of delivered and missing; an item is in missing iff its lookup
\* raised, returned nothing, returned metadata without a message_id or its
\* delivery failed; missing lists those items in the order of encounter.
C11_BatchPartialFailure ==
    /\ \A k \in 1..Len(fate) : fate[k].fid = batch_files[k]
    /\ missing_files = FidsOf(SelectSeq(fate, NotDelivered))
    /\ sent_messages = FidsOf(SelectSeq(fate, Delivered))
    /\ Len(sent_messages) + Len(missing_files) = Len(fate)
    /\ BatchReturned => outcome = "batch_done" /\ Len(fate) = Len(batch_files)

\* a batch that spans two chunks: items 3 and 6 fail, the others are delivered
C11_Witness ==
    /\ BatchReturned
    /\ Len(batch_files) = MaxBatchLen
    /\ missing_files = <<3, MaxBatchLen>>
    /\ Len(sent_messages) = MaxBatchLen - 2
    /\ fate[3].how = "raised"
    /\ fate[MaxBatchLen].how = "send_failed"

\* the request has reached ev
Reached(ev) == \E k \in DOMAIN events : events[k] = ev

\* the request reached a before it first reached b
ReachedBefore(a, b) ==
    \E i \in DOMAIN events :
        /\ events[i] = a
        /\ \A j \in DOMAIN events : events[j] = b => i < j

\* C12: no item is delivered unless the limiter admitted the request first and
\* then (when token verification is enabled) the token check returned true; a
\* request denied by the limiter reaches neither the token check nor the store
\* lookup nor the delivery capability; a request failing the token check
\* reaches neither the store lookup nor the delivery capability.
C12_PipelineOrder ==
    /\ Reached("deliver") =>
          /\ ReachedBefore("admitted", "deliver")
          /\ verification =>
                /\ ReachedBefore("admitted", "token_ok")
                /\ ReachedBefore("token_ok", "deliver")
    /\ Reached("denied") =>
          /\ ~Reached("token_ok")
          /\ ~Reached("token_fail")
          /\ ~Reached("lookup_item")
          /\ ~Reached("lookup_batch")
          /\ ~Reached("deliver")
    /\ Reached("token_fail") =>
          /\ ~Reached("lookup_item")
          /\ ~Reached("lookup_batch")
          /\ ~Reached("deliver")

\* C19: the batch path of send_file never aborts because of item-level
\* failures; when every item of a non-empty batch fails the call completes
\* normally with delivered empty and missing holding every item of the batch.
C19_TotalFailureIsData ==
    /\ outcome # "aborted"
    /\ (BatchReturned /\ \A k \in DOMAIN fate : fate[k].how # "sent") =>
          /\ outcome = "batch_done"
          /\ sent_messages = <<>>
          /\ missing_files = batch_files

\* every item of a batch of two chunks failed, one lookup raised and one
\* delivery failed
C19_Witness ==
    /\ BatchReturned
    /\ Len(batch_files) = MaxBatchLen
    /\ sent_messages = <<>>
    /\ missing_files = batch_files
    /\ \E k \in DOMAIN fate : fate[k].how = "raised"
    /\ \E k \in DOMAIN fate : fate[k].how = "send_failed"

\* C20: the reference is first looked up as a single item; the batch lookup
\* is made only if the item lookup returned nothing; "not found" is reported
\* only if both lookups returned nothing; when the item lookup succeeds no
\* batch lookup is made, even if the delivery then fails.
C20_ResolutionOrder ==
    /\ lookups # <<>> => lookups[1].what = "item"
    /\ Len(lookups) <= 2
    /\ Len(lookups) = 2 => lookups[2].what = "batch" /\ lookups[1].result = "nothing"
    /\ outcome = "not_found" =>
          /\ Len(lookups) = 2
          /\ lookups[1].result = "nothing"
          /\ lookups[2].result = "nothing"
    /\ (lookups # <<>> /\ lookups[1].result # "nothing") =>
          /\ Len(lookups) = 1
          /\ outcome \in {"sent", "send_failed", "invalid_file"}
    /\ outcome \in {"sent", "send_failed", "invalid_file", "not_found", "invalid_batch",
                    "batch_done"} => lookups # <<>>

\* the item was found, its delivery failed and no batch lookup was made
C20_Witness ==
    /\ outcome = "send_failed"
    /\ Len(lookups) = 1
    /\ lookups[1].what = "item"
    /\ lookups[1].result = "found"

(***************************************************************************)
(* The token functions of the bot, called one after the other              *)
(***************************************************************************)
\* verify_token(token) through the wrapper of @cached: [result, hit, cache, access, db]
VerifyToken(c, a, db, tok, t, ok) ==
    LET g == MemGet(c, a, VerifyKey(tok), t)
    IN IF g.result # NoneVal
       THEN [result |-> g.result, hit |-> TRUE, cache |-> g.cache, access |-> g.access,
             db |-> db]
       ELSE LET r == DbVerifyToken(db, tok, t, ok)
                m == MemSet(g.cache, g.access, VerifyKey(tok), r.result, VerifyTtl, t)
            IN [result |-> r.result, hit |-> FALSE, cache |-> m.cache, access |-> m.access,
                db |-> r.db]

\* the store holds an unexpired token of the identity or of the shared owner
HoldsValidToken(db, user_id, t) ==
    \E tok \in DOMAIN db : db[tok].user_id \in {user_id, 0} /\ db[tok].expiry > t

\* await check_user_token(user_id)
AccessCheck(u, ok) ==
    /\ accCalls < MaxAccessCalls
    /\ accCalls' = accCalls + 1
    /\ LET ck == CheckUserToken(cache, access_times, tokensDb, u, now, ok)
       IN /\ cache' = ck.cache
          /\ access_times' = ck.access
          /\ accOp' = [op |-> "check", user |-> u, result |-> ck.result, hit |-> ck.hit,
                       store_failed |-> ~ck.hit /\ ~ok,
                       valid |-> HoldsValidToken(tokensDb, u, now),
                       after_issue |-> u \in freshFor]
    /\ freshFor' = freshFor \ {u}
    /\ UNCHANGED <<now, tokensDb, nextTok, issued>>
    /\ UNCHANGED offAccess

\* await generate_token(owner, context)
AccessIssue(owner, ok) ==
    /\ accCalls < MaxAccessCalls
    /\ accCalls' = accCalls + 1
    /\ nextTok <= RefreshMaxTokens
    /\ LET g == Generate(cache, access_times, tokensDb, nextTok, owner, now, ok)
       IN /\ cache' = g.cache
          /\ access_times' = g.access
          /\ tokensDb' = g.db
          /\ nextTok' = g.nextTok
          /\ issued' = [tok \in DOMAIN issued \cup DOMAIN g.db |->
                          IF tok \in DOMAIN issued THEN issued[tok]
                          ELSE [user_id |-> g.db[tok].user_id, expiry |-> g.db[tok].expiry]]
          /\ accOp' = [op |-> "issue", user |-> owner, result |-> g.result, hit |-> g.hit,
                       store_failed |-> ~g.hit /\ ~ok,
                       notified |-> g.notified,
                       added |-> DOMAIN g.db \ DOMAIN tokensDb]
          /\ freshFor' = IF DOMAIN g.db = DOMAIN tokensDb THEN freshFor
                         ELSE IF owner = 0 THEN Requesters
                         ELSE freshFor \cup {owner}
    /\ UNCHANGED now
    /\ UNCHANGED offAccess

\* await verify_token(token)
AccessVerify(tok, ok) ==
    /\ accCalls < MaxAccessCalls
    /\ accCalls' = accCalls + 1
    /\ tok \in DOMAIN issued
    /\ LET v == VerifyToken(cache, access_times, tokensDb, tok, now, ok)
       IN /\ cache' = v.cache
          /\ access_times' = v.access
          /\ tokensDb' = v.db
          /\ accOp' = [op |-> "verify", token |-> tok, result |-> v.result, hit |-> v.hit,
                       store_failed |-> ~v.hit /\ ~ok]
    /\ UNCHANGED <<now, nextTok, issued, freshFor>>
    /\ UNCHANGED offAccess

\* refresh_token(context) run by the job queue or by an admin
AccessRefresh(okLookup, okSave) ==
    /\ accCalls < MaxAccessCalls
    /\ accCalls' = accCalls + 1
    /\ nextTok <= RefreshMaxTokens
    /\ LET r == RefreshToken(cache, access_times, tokensDb, nextTok, now, okLookup, okSave)
       IN /\ cache' = r.cache
          /\ access_times' = r.access
          /\ tokensDb' = r.db
          /\ nextTok' = r.nextTok
          /\ issued' = [tok \in DOMAIN issued \cup DOMAIN r.db |->
                          IF tok \in DOMAIN issued THEN issued[tok]
                          ELSE [user_id |-> r.db[tok].user_id, expiry |-> r.db[tok].expiry]]
          /\ accOp' = [op |-> "refresh", added |-> DOMAIN r.db \ DOMAIN tokensDb]
          /\ freshFor' = IF DOMAIN r.db = DOMAIN tokensDb THEN freshFor ELSE Requesters
    /\ UNCHANGED now
    /\ UNCHANGED offAccess

\* db.save_token(token, owner, expiry) for a token the collection holds
\* already (a uuid4 drawn twice): the unique index on "token" refuses it
StoreSaveExisting(tok, owner, ok) ==
    /\ accCalls < MaxAccessCalls
    /\ accCalls' = accCalls + 1
    /\ tok \in DOMAIN tokensDb
    /\ LET sv == DbSaveToken(tokensDb, tok, owner, now + TokenDuration, ok)
       IN /\ tokensDb' = sv.db
          /\ accOp' = [op |-> "save", token |-> tok, result |-> sv.result]
    /\ UNCHANGED <<now, cache, access_times, nextTok, issued, freshFor>>
    /\ UNCHANGED offAccess

\* the clock of the token functions shows the instants up to the expiry of
\* the token the store starts with, and the instant at which a result
\* memoized at that expiry is dropped
AccessInstants ==
    {t \in 0..AccessMaxTime :
        \/ t <= 2 * TickSeconds /\ t % TickSeconds = 0
        \/ t = 2 * TickSeconds + CheckTtl + TickSeconds}

TickAccess ==
    /\ \E t \in AccessInstants :
          /\ t > now
          /\ \A x \in AccessInstants : x > now => t <= x
          /\ now' = t
    /\ accOp' = NoOp
    /\ UNCHANGED <<cache, access_times, tokensDb, nextTok, issued, freshFor, accCalls>>
    /\ UNCHANGED offAccess

NextAccess ==
    \/ \E u \in Requesters, ok \in BOOLEAN : AccessCheck(u, ok)
    \/ \E owner \in {0} \cup Requesters, ok \in BOOLEAN : AccessIssue(owner, ok)
    \/ \E tok \in 1..MaxTokens, ok \in BOOLEAN : AccessVerify(tok, ok)
    \/ \E okLookup \in BOOLEAN, okSave \in BOOLEAN : AccessRefresh(okLookup, okSave)
    \/ \E tok \in 1..MaxTokens, owner \in {0} \cup Requesters, ok \in BOOLEAN :
          StoreSaveExisting(tok, owner, ok)
    \/ TickAccess

\* the store is empty or holds a shared token about to expire
InitAccess ==
    /\ now = 0
    /\ InitCacheVars
    /\ InitLimiterVars
    /\ InitBucketVars
    /\ \/ /\ tokensDb = <<>>
          /\ nextTok = 1
          /\ issued = <<>>
       \/ \E r \in AccessRemaining :
             /\ tokensDb = <<[user_id |-> 0, expiry |-> r, used_count |-> 0,
                              last_used |-> NoneVal]>>
             /\ nextTok = 2
             /\ issued = <<[user_id |-> 0, expiry |-> r]>>
    /\ pend = [c \in Callers |-> Idle]
    /\ verOp = NoOp
    /\ okCount = <<>>
    /\ InitRefreshVars
    /\ InitHandlerVars

SpecAccess == InitAccess /\ [][NextAccess]_vars

\* C13: after generate_token has issued a token for owner X, the next
\* check_user_token call for X (for any identity when X = 0) returns true; a
\* negative result memoized before the issue is not served after it.
C13_InvalidationOnIssue ==
    (accOp.op = "check" /\ accOp.after_issue /\ ~accOp.store_failed) => accOp.result

\* C14: check_user_token(identity) returns true only if, at the time of the
\* call, the store holds an unexpired token of identity or of the shared owner.
C14_NoStaleAuthorization ==
    (accOp.op = "check" /\ accOp.result) => accOp.valid

\* C18: a store failure during issue, verify or check is reported as a value:
\* generate_token gives (None, None), stores nothing and notifies nobody,
\* verify_token gives None and check_user_token gives false.
C18_StoreFailuresAreValues ==
    /\ (accOp.op = "issue" /\ accOp.store_failed) =>
          /\ accOp.result = GenFailed
          /\ ~accOp.notified
          /\ accOp.added = {}
    /\ (accOp.op = "issue" /\ accOp.notified) => accOp.added # {}
    /\ (accOp.op = "verify" /\ accOp.store_failed) => accOp.result = NoneVal
    /\ (accOp.op = "check" /\ accOp.store_failed) => accOp.result = FALSE

\* the insert of generate_token failed although an earlier issue had succeeded
C18_Witness ==
    /\ accOp.op = "issue"
    /\ accOp.store_failed
    /\ accOp.result = GenFailed
    /\ tokensDb # <<>>

(***************************************************************************)
(* RateLimiter.wait_for_tokens                                             *)
(***************************************************************************)
\* the costs the waiting coroutines ask for
WaitCosts == {30, 100, 101}

\* seconds an empty bucket needs to be full again
FullRefillSeconds == BucketMaxTokens \div RefillRate

\* a coroutine calls rate_limiter.wait_for_tokens(cost); calls are made while
\* the clock of the model leaves the bucket time to refill once in full
WaitCall(w, cost) ==
    /\ waiters[w].pc = "idle"
    /\ now + FullRefillSeconds <= WaitMaxTime
    /\ waiters' = [waiters EXCEPT ![w] = [pc |-> "trying", cost |-> cost]]
    /\ bucketOp' = NoOp
    /\ UNCHANGED <<now, tokens, last_refill>>
    /\ UNCHANGED offWait

\* "await self.acquire(tokens)" of the loop of wait_for_tokens: the
\* coroutine returns if acquire succeeded and goes to sleep otherwise
WaitTry(w) ==
    /\ waiters[w].pc = "trying"
    /\ LET r == Acquire(tokens, last_refill, waiters[w].cost, now)
       IN /\ tokens' = r.tokens
          /\ bucketOp' = [op |-> "acquire", cost |-> waiters[w].cost, ok |-> r.result,
                          before |-> tokens, time_passed |-> now - last_refill]
          /\ waiters' = [waiters EXCEPT ![w].pc = IF r.result THEN "done" ELSE "sleeping"]
    /\ last_refill' = now
    /\ UNCHANGED now
    /\ UNCHANGED offWait

\* "await asyncio.sleep(0.1)" is over: the sleep is shorter than the
\* resolution of the clock, so the next attempt may fall at the same instant
WaitWake(w) ==
    /\ waiters[w].pc = "sleeping"
    /\ waiters' = [waiters EXCEPT ![w].pc = "trying"]
    /\ bucketOp' = NoOp
    /\ UNCHANGED <<now, tokens, last_refill>>
    /\ UNCHANGED offWait

\* a coroutine that is ready runs before the clock shows the next instant
TickWait ==
    /\ now + 1 <= WaitMaxTime
    /\ \A w \in Waiters : waiters[w].pc # "trying"
    /\ now' = now + 1
    /\ bucketOp' = NoOp
    /\ UNCHANGED <<tokens, last_refill, waiters>>
    /\ UNCHANGED offWait

NextWait ==
    \/ \E w \in Waiters, cost \in WaitCosts : WaitCall(w, cost)
    \/ \E w \in Waiters : WaitTry(w)
    \/ \E w \in Waiters : WaitWake(w)
    \/ TickWait

InitWait ==
    /\ now = 0
    /\ InitCacheVars
    /\ InitLimiterVars
    /\ InitBucketVars
    /\ InitTokenVars
    /\ InitRefreshVars
    /\ InitHandlerVars

\* the event loop runs every coroutine that is ready, every sleep ends, and
\* time passes however often the waiters wake up in between
SpecWait ==
    /\ InitWait
    /\ [][NextWait]_vars
    /\ SF_vars(TickWait)
    /\ \A w \in Waiters : WF_vars(WaitTry(w)) /\ WF_vars(WaitWake(w))

\* C15: every wait_for_tokens(cost) call eventually returns, whatever the
\* cost and whatever the other waiters ask for.
C15_WaitTerminates ==
    \A w \in Waiters : (waiters[w].pc = "trying") ~> (waiters[w].pc = "done")

\* every wait_for_tokens(cost) call with a cost the bucket can hold returns
C15_AffordableWaitTerminates ==
    \A w \in Waiters :
        (waiters[w].pc = "trying" /\ waiters[w].cost <= BucketMaxTokens)
            ~> (waiters[w].pc = "done")

\* a waiter returned after a refused acquire: it had to wait for the refill
C15_Witness ==
    \E w \in Waiters :
        /\ waiters[w].pc = "done"
        /\ bucketOp.op = "acquire"
        /\ bucketOp.ok
        /\ bucketOp.before < bucketOp.cost

(***************************************************************************)
(* start() and stop() of MemoryCache and UserRateLimiter, and their loops  *)
(***************************************************************************)
\* the key set and the identity admitted while the loops are started and stopped
LifeKeys == {"k1"}
LifeUsers == {1}

\* start(): a task is created if there is none or the one there is done
StartableAlways(task) == TRUE
Startable(task) == task \in {"none", "done"}

\* the loop runs its next pass only if it was not cancelled: cancel() makes
\* the pending "await asyncio.sleep(...)" raise CancelledError, which
\* "except Exception" does not catch, so the task ends there
LoopAliveThroughCancel(task) == task \in {"running", "cancelled"}
LoopAlive(task) == task = "running"

\* await cache.start() and await user_rate_limiter.start(); the program
\* makes the calls of start() and stop() of one object one after the other
LifeStart(c) ==
    /\ stop_pc[c] = "idle"
    /\ IF c = "cache"
       THEN /\ cleanup_task' = IF Startable(cleanup_task) THEN "running" ELSE cleanup_task
            /\ cleanup_wake' = IF Startable(cleanup_task) THEN now ELSE cleanup_wake
            /\ UNCHANGED <<sweep_task, sweep_wake>>
       ELSE /\ sweep_task' = IF Startable(sweep_task) THEN "running" ELSE sweep_task
            /\ sweep_wake' = IF Startable(sweep_task) THEN now ELSE sweep_wake
            /\ UNCHANGED <<cleanup_task, cleanup_wake>>
    /\ stopped' = [stopped EXCEPT ![c] = FALSE]
    /\ LET created == Startable(IF c = "cache" THEN cleanup_task ELSE sweep_task)
       IN /\ loops' = [loops EXCEPT ![c] = IF created THEN @ + 1 ELSE @]
          /\ lifeOp' = [op |-> "start", comp |-> c, created |-> created,
                        after_stop |-> stopped[c]]
    /\ UNCHANGED <<now, cache, access_times, user_requests, stop_pc>>
    /\ UNCHANGED offLife

\* stop() up to "await self._cleanup_task": without a task it returns at
\* once, with a task it cancels it and is suspended until the task has ended
LifeStopCall(c) ==
    /\ stop_pc[c] = "idle"
    /\ LET task == IF c = "cache" THEN cleanup_task ELSE sweep_task
       IN IF task = "none"
          THEN /\ lifeOp' = [op |-> "stop_without_task", comp |-> c,
                             before |-> <<cache, access_times, user_requests, cleanup_task,
                                          sweep_task, cleanup_wake, sweep_wake>>]
               /\ stopped' = [stopped EXCEPT ![c] = TRUE]
               /\ UNCHANGED <<cleanup_task, sweep_task, stop_pc>>
          ELSE /\ lifeOp' = [op |-> "cancel", comp |-> c]
               /\ stop_pc' = [stop_pc EXCEPT ![c] = "awaiting"]
               /\ cleanup_task' = IF c = "cache" /\ cleanup_task = "running"
                                  THEN "cancelled" ELSE cleanup_task
               /\ sweep_task' = IF c = "limiter" /\ sweep_task = "running"
                                THEN "cancelled" ELSE sweep_task
               /\ UNCHANGED stopped
    /\ UNCHANGED <<now, cache, access_times, user_requests, cleanup_wake, sweep_wake, loops>>
    /\ UNCHANGED offLife

\* the cancelled task is resumed with CancelledError at its sleep and ends
LifeLoopExit(c) ==
    /\ IF c = "cache"
       THEN /\ cleanup_task = "cancelled"
            /\ cleanup_task' = "done"
            /\ UNCHANGED sweep_task
       ELSE /\ sweep_task = "cancelled"
            /\ sweep_task' = "done"
            /\ UNCHANGED cleanup_task
    /\ lifeOp' = [op |-> "exit", comp |-> c]
    /\ loops' = [loops EXCEPT ![c] = @ - 1]
    /\ UNCHANGED <<now, cache, access_times, user_requests, cleanup_wake, sweep_wake, stop_pc,
                   stopped>>
    /\ UNCHANGED offLife

\* stop() after its await: "self._cleanup_task = None" and return
LifeStopReturn(c) ==
    /\ stop_pc[c] = "awaiting"
    /\ IF c = "cache"
       THEN /\ cleanup_task = "done"
            /\ cleanup_task' = "none"
            /\ UNCHANGED sweep_task
       ELSE /\ sweep_task = "done"
            /\ sweep_task' = "none"
            /\ UNCHANGED cleanup_task
    /\ stop_pc' = [stop_pc EXCEPT ![c] = "idle"]
    /\ stopped' = [stopped EXCEPT ![c] = TRUE]
    /\ lifeOp' = [op |-> "stop_returned", comp |-> c,
                  task |-> IF c = "cache" THEN cleanup_task ELSE sweep_task]
    /\ UNCHANGED <<now, cache, access_times, user_requests, cleanup_wake, sweep_wake, loops>>
    /\ UNCHANGED offLife

\* one pass of the loop of the cache or of the limiter, then its sleep
LifePass(c) ==
    /\ IF c = "cache"
       THEN /\ LoopAlive(cleanup_task)
            /\ now >= cleanup_wake
            /\ LET r == CleanupPass(cache, access_times, now)
               IN /\ cache' = r.cache
                  /\ access_times' = r.access
            /\ cleanup_wake' = now + CleanupSleep
            /\ lifeOp' = [op |-> "pass", comp |-> c, task |-> cleanup_task,
                          stopped |-> stopped[c], removed |-> DOMAIN cache # DOMAIN cache']
            /\ UNCHANGED <<user_requests, sweep_wake>>
       ELSE /\ LoopAlive(sweep_task)
            /\ now >= sweep_wake
            /\ user_requests' = SweepPass(user_requests, now)
            /\ sweep_wake' = now + SweepSleep
            /\ lifeOp' = [op |-> "pass", comp |-> c, task |-> sweep_task,
                          stopped |-> stopped[c], removed |-> user_requests' # user_requests]
            /\ UNCHANGED <<cache, access_times, cleanup_wake>>
    /\ UNCHANGED <<now, cleanup_task, sweep_task, stop_pc, stopped, loops>>
    /\ UNCHANGED offLife

\* "except Exception as e": the error is logged and the task goes on
AfterCycleErrorEnds(task) == IF task = "running" THEN "done" ELSE task
AfterCycleError(task) == task

\* a pass of the loop in which an exception is raised, before the removals
\* of the pass or after them: the handler logs it and sleeps the interval
LifePassFails(c, after) ==
    /\ IF c = "cache"
       THEN /\ LoopAlive(cleanup_task)
            /\ now >= cleanup_wake
            /\ LET r == CleanupPass(cache, access_times, now)
               IN /\ cache' = IF after THEN r.cache ELSE cache
                  /\ access_times' = IF after THEN r.access ELSE access_times
            /\ cleanup_wake' = now + CleanupSleep
            /\ cleanup_task' = AfterCycleError(cleanup_task)
            /\ UNCHANGED <<user_requests, sweep_wake, sweep_task>>
       ELSE /\ LoopAlive(sweep_task)
            /\ now >= sweep_wake
            /\ user_requests' = IF after THEN SweepPass(user_requests, now)
                                 ELSE user_requests
            /\ sweep_wake' = now + SweepSleep
            /\ sweep_task' = AfterCycleError(sweep_task)
            /\ UNCHANGED <<cache, access_times, cleanup_wake, cleanup_task>>
    /\ lifeOp' = [op |-> "pass_failed", comp |-> c, after |-> after]
    /\ UNCHANGED <<now, stop_pc, stopped, loops>>
    /\ UNCHANGED offLife

\* cache.set(key, 1, ttl) by some handler
LifeSet(k) ==
    /\ LET m == MemSet(cache, access_times, k, 1, TickSeconds, now)
       IN /\ cache' = m.cache
          /\ access_times' = m.access
    /\ lifeOp' = NoOp
    /\ UNCHANGED <<now, user_requests, cleanup_task, sweep_task, cleanup_wake, sweep_wake,
                   stop_pc, stopped, loops>>
    /\ UNCHANGED offLife

\* user_rate_limiter.is_allowed(user_id) by some handler
LifeIsAllowed(u) ==
    /\ user_requests' = IsAllowed(user_requests, u, now).ur
    /\ lifeOp' = NoOp
    /\ UNCHANGED <<now, cache, access_times, cleanup_task, sweep_task, cleanup_wake,
                   sweep_wake, stop_pc, stopped, loops>>
    /\ UNCHANGED offLife

TickLife ==
    /\ now + TickSeconds <= LifeMaxTime
    /\ now' = now + TickSeconds
    /\ lifeOp' = NoOp
    /\ UNCHANGED <<cache, access_times, user_requests, cleanup_task, sweep_task, cleanup_wake,
                   sweep_wake, stop_pc, stopped, loops>>
    /\ UNCHANGED offLife

NextLife ==
    \/ \E c \in Components : LifeStart(c)
    \/ \E c \in Components : LifeStopCall(c)
    \/ \E c \in Components : LifeLoopExit(c)
    \/ \E c \in Components : LifeStopReturn(c)
    \/ \E c \in Components : LifePass(c)
    \/ \E c \in Components, after \in BOOLEAN : LifePassFails(c, after)
    \/ \E k \in LifeKeys : LifeSet(k)
    \/ \E u \in LifeUsers : LifeIsAllowed(u)
    \/ TickLife

InitLife ==
    /\ now = 0
    /\ InitCacheVars
    /\ InitLimiterVars
    /\ InitBucketVars
    /\ InitTokenVars
    /\ InitRefreshVars
    /\ InitHandlerVars

SpecLife == InitLife /\ [][NextLife]_vars

\* C16: stop() returns only after the loop task has ended; between the
\* return of stop() and the next start() no pass of the loop runs (a pass is
\* made only by a task that was not cancelled); stop() without a task
\* changes nothing.
C16_StoppableLoops ==
    /\ lifeOp.op = "stop_returned" =>
          /\ lifeOp.task = "done"
          /\ (IF lifeOp.comp = "cache" THEN cleanup_task ELSE sweep_task) = "none"
    /\ lifeOp.op = "pass" => lifeOp.task = "running" /\ ~lifeOp.stopped
    /\ \A c \in Components :
          stopped[c] => (IF c = "cache" THEN cleanup_task ELSE sweep_task) = "none"
    /\ lifeOp.op = "stop_without_task" =>
          lifeOp.before = <<cache, access_times, user_requests, cleanup_task, sweep_task,
                            cleanup_wake, sweep_wake>>

\* both loops have run and were stopped; an expired entry and an old request
\* are left where a pass in due time would have removed them
C16_Witness ==
    /\ stopped["cache"] /\ stopped["limiter"]
    /\ cleanup_wake > 0 /\ now >= cleanup_wake
    /\ sweep_wake > 0 /\ now >= sweep_wake
    /\ \E k \in DOMAIN cache : now > cache[k].expires_at
    /\ \E u \in DOMAIN user_requests :
          user_requests[u] # <<>> /\ user_requests[u][1] < now - WindowSeconds

(***************************************************************************)
(* The wrapper of @monitored                                               *)
(***************************************************************************)
\* args[0] of a wrapped call: an object without effective_user (None in
\* error_handler), an update whose effective_user is None, an update of a user
UpdateKinds == {"no_attribute", "no_user", "user"}
\* update.effective_user.id
MonitoredIds == {0, 1}
\* what the wrapped handler does when it is called
HandlerBehaviours == {"returns", "raises"}

\* "if args and hasattr(args[0], 'effective_user'): user_id =
\* args[0].effective_user.id", inside the try and before the handler is
\* called: [raised, user_id]
ExtractUserId(kind, uid) ==
    IF kind = "no_attribute" THEN [raised |-> FALSE, user_id |-> NoneVal]
    ELSE IF kind = "no_user" THEN [raised |-> TRUE, user_id |-> NoneVal]
    ELSE [raised |-> FALSE, user_id |-> uid]

\* "if user_id:" of the finally clause
Truthy(user_id) == user_id # NoneVal /\ user_id # 0

\* the wrapper of monitored(func) called with an update: how often the
\* handler ran, how the wrapper ended, and what the finally clause recorded
Monitored(kind, uid, behaviour) ==
    LET x == ExtractUserId(kind, uid)
    IN IF x.raised
       THEN [invoked |-> 0, ended |-> "raised", error |-> "AttributeError",
             recorded |-> FALSE, success |-> FALSE]
       ELSE [invoked |-> 1,
             ended |-> IF behaviour = "returns" THEN "returned" ELSE "raised",
             error |-> IF behaviour = "returns" THEN "none" ELSE "handler",
             recorded |-> Truthy(x.user_id),
             success |-> behaviour = "returns"]

\* a wrapped handler is called by the dispatcher; record_request counts it
MonitoredCall(kind, uid, behaviour) ==
    /\ requests_total < MaxMonitored
    /\ LET r == Monitored(kind, uid, behaviour)
       IN /\ requests_total' = IF r.recorded THEN requests_total + 1 ELSE requests_total
          /\ error_count' = IF r.recorded /\ ~r.success THEN error_count + 1
                            ELSE error_count
          /\ monOp' = [op |-> "call", kind |-> kind, behaviour |-> behaviour,
                       invoked |-> r.invoked, ended |-> r.ended, error |-> r.error,
                       recorded |-> r.recorded]
    /\ UNCHANGED now
    /\ UNCHANGED offMonitor

NextMonitor ==
    \E kind \in UpdateKinds, uid \in MonitoredIds, behaviour \in HandlerBehaviours :
        MonitoredCall(kind, uid, behaviour)

InitMonitor ==
    /\ now = 0
    /\ InitCacheVars
    /\ InitLimiterVars
    /\ InitBucketVars
    /\ InitTokenVars
    /\ InitRefreshVars
    /\ InitHandlerVars

SpecMonitor == InitMonitor /\ [][NextMonitor]_vars

\* C17: for every input the wrapper calls the handler exactly once, returns
\* when the handler returns, raises the handler's exception when it raises,
\* and raises no error of its own.
C17_Observational ==
    monOp.op = "call" =>
        /\ monOp.invoked = 1
        /\ monOp.behaviour = "returns" => monOp.ended = "returned" /\ monOp.error = "none"
        /\ monOp.behaviour = "raises" => monOp.ended = "raised" /\ monOp.error = "handler"

\* the same for the updates that carry a user, or no effective_user attribute
C17_ObservationalWithUser ==
    (monOp.op = "call" /\ monOp.kind # "no_user") =>
        /\ monOp.invoked = 1
        /\ monOp.behaviour = "returns" => monOp.ended = "returned" /\ monOp.error = "none"
        /\ monOp.behaviour = "raises" => monOp.ended = "raised" /\ monOp.error = "handler"

(***************************************************************************)
(* The wrappers of @rate_limited(max_requests=N, window_seconds=W)         *)
(***************************************************************************)
\* the arguments of the decorators: start_command 10, send_file 20,
\* search_files 15, every one of them below the 30 of user_rate_limiter. The
\* limiter of the model admits MaxRequests, so an argument counts as it is
\* when it is below MaxRequests and as MaxRequests - 1 otherwise
DecoratorMaxRequests(h) ==
    LET n == IF h = "start_command" THEN 10 ELSE IF h = "send_file" THEN 20 ELSE 15
    IN Min(n, MaxRequests - 1)

\* the wrapper built by rate_limited(max_requests, window_seconds): neither
\* argument is read, the one user_rate_limiter decides for every handler;
\* after a denial get_reset_time is asked for the text of the reply
RateLimited(max_requests, window_seconds, ur, u, t) ==
    LET r == IsAllowed(ur, u, t)
    IN IF r.result
       THEN [admitted |-> TRUE, ur |-> r.ur, wait_time |-> 0]
       ELSE LET g == ResetTime(r.ur, u)
            IN [admitted |-> FALSE, ur |-> g.ur, wait_time |-> g.result - t]

\* the dispatcher calls the decorated handler h for an update of u
DecoratedCall(h, u) ==
    /\ Len(calls[u]) < MaxCalls
    /\ LET r == RateLimited(DecoratorMaxRequests(h), WindowSeconds, user_requests, u, now)
       IN /\ user_requests' = r.ur
          /\ limOp' = [op |-> "decorated", handler |-> h, user |-> u,
                       result |-> r.admitted, wait_time |-> r.wait_time]
          /\ calls' = [calls EXCEPT ![u] = Append(@, [t |-> now, ok |-> r.admitted])]
          /\ invoked' = IF r.admitted
                        THEN [invoked EXCEPT ![h][u] = Append(@, now)]
                        ELSE invoked
    /\ UNCHANGED now
    /\ UNCHANGED offDecorated

TickDecorated ==
    /\ now + TickSeconds <= DecoratedMaxTime
    /\ now' = now + TickSeconds
    /\ limOp' = NoOp
    /\ UNCHANGED <<user_requests, calls, invoked>>
    /\ UNCHANGED offDecorated

NextDecorated ==
    \/ \E h \in Decorated, u \in Users : DecoratedCall(h, u)
    \/ TickDecorated

InitDecorated ==
    /\ now = 0
    /\ InitCacheVars
    /\ InitLimiterVars
    /\ InitBucketVars
    /\ InitTokenVars
    /\ InitRefreshVars
    /\ InitHandlerVars

SpecDecorated == InitDecorated /\ [][NextDecorated]_vars

\* the entries of the body of h by u in the W seconds up to T
InvokedIn(h, u, lo, hi) ==
    {i \in DOMAIN invoked[h][u] : lo < invoked[h][u][i] /\ invoked[h][u][i] <= hi}

\* C21: a handler decorated with rate_limited(max_requests=N, ...) is
\* entered, per user, at most N times in any trailing window.
C21_PerHandlerLimits ==
    \A h \in Decorated, u \in Users : \A T \in 0..now :
        Cardinality(InvokedIn(h, u, T - WindowSeconds, T)) <= DecoratorMaxRequests(h)

\* whatever the handlers, an identity enters at most max_requests bodies of
\* decorated handlers in any trailing window
C21_SharedLimit ==
    \A u \in Users : \A T \in 0..now :
        Cardinality(UNION {{<<h, i>> : i \in InvokedIn(h, u, T - WindowSeconds, T)} :
                              h \in Decorated}) <= MaxRequests

\* C22: a store failure while looking up an item the store holds is not
\* reported to the requester as absence ("File or batch not found!").
C22_ThreeWayOutcome ==
    (outcome = "not_found" /\ lookups # <<>>) => lookups[1].stored = "nothing"

\* "File or batch not found!" is replied only when both lookups gave nothing
\* to the handler, whether the store held nothing or failed
C22_TwoWayOutcome ==
    (outcome = "not_found" /\ lookups # <<>>) =>
        /\ lookups[1].result = "nothing"
        /\ lookups[Len(lookups)].result = "nothing"

(***************************************************************************)
(* The loop over the chunks of a batch, lookup by lookup and send by send  *)
(***************************************************************************)
\* "tasks.append(db.get_file(fid))" for the chunk, then gather starts them
FanIssue ==
    /\ fan_pc = "issue"
    /\ LET chunk == BatchChunk(batch_files, chunk_at)
       IN tasks' = {chunk[k] : k \in DOMAIN chunk}
    /\ fan_pc' = "gather"
    /\ UNCHANGED <<now, batch_files, chunk_at, item_at, sending, processed, sent_messages,
                   missing_files, delays, completed>>
    /\ UNCHANGED offFan

\* one db.get_file of the pending gather returns
FanLookupDone(fid) ==
    /\ fan_pc = "gather"
    /\ fid \in tasks
    /\ tasks' = tasks \ {fid}
    /\ completed' = Append(completed, fid)
    /\ UNCHANGED <<now, batch_files, chunk_at, item_at, fan_pc, sending, processed,
                   sent_messages, missing_files, delays>>
    /\ UNCHANGED offFan

\* "file_results = await asyncio.gather(...)" returns when every lookup has
FanGathered ==
    /\ fan_pc = "gather"
    /\ tasks = {}
    /\ fan_pc' = "items"
    /\ item_at' = 1
    /\ UNCHANGED <<now, batch_files, chunk_at, tasks, sending, processed, sent_messages,
                   missing_files, delays, completed>>
    /\ UNCHANGED offFan

\* "if i + batch_size < len(batch_files): await asyncio.sleep(0.5)"
PacedAfterEveryChunk(files, i) == TRUE
Paced(files, i) == i + ChunkSize < Len(files)

\* "for fid, file_data in zip(batch_chunk, file_results)": the k-th item of
\* the chunk, whatever the order in which the lookups returned
ZipItemAsCompleted(files, i, k, done) == done[i + k]
ZipItem(files, i, k, done) == BatchChunk(files, i)[k]

\* the loop is through with the item at item_at: next item, next chunk after
\* "await asyncio.sleep(0.5)", or the end of the batch
FanAdvance ==
    LET chunk == BatchChunk(batch_files, chunk_at)
    IN /\ processed' = processed \cup {ZipItem(batch_files, chunk_at, item_at, completed)}
       /\ UNCHANGED completed
       /\ IF item_at < Len(chunk)
          THEN /\ item_at' = item_at + 1
               /\ fan_pc' = "items"
               /\ UNCHANGED delays
          ELSE /\ item_at' = 1
               /\ IF Paced(batch_files, chunk_at)
                  THEN fan_pc' = "sleep" /\ delays' = delays + 1
                  ELSE fan_pc' = "done" /\ UNCHANGED delays

\* the body of the loop over the items of the chunk: an item that cannot be
\* sent goes to missing_files, for the others copy_message is awaited
FanItem(sendable) ==
    /\ fan_pc = "items"
    /\ IF sendable
       THEN /\ sending' = {ZipItem(batch_files, chunk_at, item_at, completed)}
            /\ fan_pc' = "sending"
            /\ UNCHANGED <<item_at, processed, missing_files, delays, completed>>
       ELSE /\ FanAdvance
            /\ missing_files' = Append(missing_files,
                                       ZipItem(batch_files, chunk_at, item_at, completed))
            /\ UNCHANGED sending
    /\ UNCHANGED <<now, batch_files, chunk_at, tasks, sent_messages>>
    /\ UNCHANGED offFan

\* copy_message returns or raises
FanSendDone(sendOk) ==
    /\ fan_pc = "sending"
    /\ sending' = {}
    /\ FanAdvance
    /\ LET fid == ZipItem(batch_files, chunk_at, item_at, completed)
       IN IF sendOk
          THEN /\ sent_messages' = Append(sent_messages, fid)
               /\ UNCHANGED missing_files
          ELSE /\ missing_files' = Append(missing_files, fid)
               /\ UNCHANGED sent_messages
    /\ UNCHANGED <<now, batch_files, chunk_at, tasks>>
    /\ UNCHANGED offFan

\* the sleep between two chunks is over
FanNextChunk ==
    /\ fan_pc = "sleep"
    /\ chunk_at' = chunk_at + ChunkSize
    /\ fan_pc' = IF chunk_at + ChunkSize < Len(batch_files) THEN "issue" ELSE "done"
    /\ UNCHANGED <<now, batch_files, item_at, tasks, sending, processed, sent_messages,
                   missing_files, delays, completed>>
    /\ UNCHANGED offFan

NextFan ==
    \/ FanIssue
    \/ \E fid \in 1..MaxBatchLen : FanLookupDone(fid)
    \/ FanGathered
    \/ \E sendable \in BOOLEAN : FanItem(sendable)
    \/ \E sendOk \in BOOLEAN : FanSendDone(sendOk)
    \/ FanNextChunk

\* send_file has found a batch of some length and enters the loop
InitFan ==
    /\ now = 0
    /\ InitCacheVars
    /\ InitLimiterVars
    /\ InitBucketVars
    /\ InitTokenVars
    /\ InitRefreshVars
    /\ verification = TRUE
    /\ InitRequestVars
    /\ \E n \in 1..MaxBatchLen : batch_files = [i \in 1..n |-> i]
    /\ chunk_at = 0
    /\ file_results = <<>>
    /\ item_at = 1
    /\ sent_messages = <<>>
    /\ missing_files = <<>>
    /\ fate = <<>>
    /\ InitAccessVars
    /\ InitWaitVars
    /\ InitLifeVars
    /\ InitMonVars
    /\ InitDecoVars
    /\ InitOtherVars
    /\ fan_pc = "issue"
    /\ tasks = {}
    /\ sending = {}
    /\ processed = {}
    /\ delays = 0
    /\ completed = <<>>

SpecFan == InitFan /\ [][NextFan]_vars

\* C23: at most ChunkSize lookups and at most ChunkSize deliveries of one
\* batch are in flight, all of them for items of the current chunk, and the
\* loop is through with every item of the earlier chunks.
C23_BoundedFanOut ==
    /\ Cardinality(tasks) <= ChunkSize
    /\ Cardinality(sending) <= ChunkSize
    /\ \A fid \in tasks \cup sending : chunk_at < fid /\ fid <= chunk_at + ChunkSize
    /\ (tasks # {} \/ sending # {}) => \A fid \in 1..chunk_at : fid \in processed

\* lookups of the second chunk are in flight
C23_Witness ==
    /\ chunk_at = ChunkSize
    /\ tasks # {}
    /\ Cardinality(processed) = ChunkSize

(***************************************************************************)
(* Further claims about UserRateLimiter, checked under SpecLimiter.        *)
(***************************************************************************)
\* the step is an is_allowed(u) call
IsAllowedStep(u) == calls'[u] # calls[u]

\* C24: an is_allowed(u) call that returns false leaves the window of u as
\* it was but for the timestamps older than now - window_seconds, and does
\* not move the reset time of u; no is_allowed(u) call changes the window of
\* another identity.
C24_DeniedNotRecorded ==
    [][\A u \in Users :
          IsAllowedStep(u) =>
              /\ ~limOp'.result =>
                    /\ RequestsOf(user_requests', u)
                          = PruneOld(RequestsOf(user_requests, u), now - WindowSeconds)
                    /\ ResetTime(user_requests', u).result
                          = ResetTime(user_requests, u).result
              /\ \A v \in Users \ {u} :
                    /\ v \in DOMAIN user_requests' <=> v \in DOMAIN user_requests
                    /\ RequestsOf(user_requests', v) = RequestsOf(user_requests, v)]_vars

\* two refused calls in a row of one identity, at different instants, while
\* another identity has a window too
C24_Witness ==
    \E u \in Users :
        /\ limOp.op = "is_allowed" /\ limOp.user = u /\ ~limOp.result
        /\ Len(calls[u]) > MaxRequests + 1
        /\ ~calls[u][Len(calls[u]) - 1].ok
        /\ calls[u][Len(calls[u]) - 1].t < now
        /\ \E v \in Users \ {u} : RequestsOf(user_requests, v) # <<>>

\* C28: get_reset_time returns the sentinel 0 or a timestamp that is not in
\* the past.
C28_ResetNotInThePast ==
    limOp.op = "get_reset_time" => (limOp.result = 0 \/ limOp.result >= now)

\* the waiting time that rate_limited computes right after a denial is not
\* negative: is_allowed has just dropped the requests older than the window
C28_RetryAfterNotNegative ==
    (limOp.op = "decorated" /\ ~limOp.result) => limOp.wait_time >= 0

\* C29: right after a sweep cycle no identity of the map has an empty
\* window and no recorded timestamp is older than the sweep time minus
\* window_seconds.
C29_SweepPostCondition ==
    limOp.op = "sweep" =>
        \A u \in DOMAIN user_requests :
            /\ user_requests[u] # <<>>
            /\ \A i \in DOMAIN user_requests[u] : user_requests[u][i] >= now - WindowSeconds

\* the sweep removed the empty window that get_reset_time had created for an
\* identity never seen, and left the recent request of a window whose older
\* request had aged out
C29_Witness ==
    /\ limOp.op = "sweep"
    /\ \E u \in limOp.removed : calls[u] = <<>>
    /\ \E v \in DOMAIN user_requests :
          /\ user_requests[v] # <<>>
          /\ \E i \in DOMAIN calls[v] : calls[v][i].ok /\ calls[v][i].t < now - WindowSeconds

(***************************************************************************)
(* Further claims about the tokens, checked under SpecAccess.              *)
(***************************************************************************)
\* C25: every stored token keeps the owner and the expiry it was created
\* with; the store verifies no token whose expiry has passed, and changes
\* a record only when it verifies it before its expiry; issue and refresh
\* leave the tokens that exist as they are and add new identifiers only;
\* saving a token whose identifier exists fails and modifies nothing.
C25_NeverExtended ==
    /\ [](\A tok \in DOMAIN tokensDb :
             /\ tok \in DOMAIN issued
             /\ tokensDb[tok].expiry = issued[tok].expiry
             /\ tokensDb[tok].user_id = issued[tok].user_id)
    /\ [][/\ \A tok \in DOMAIN tokensDb :
                /\ tok \in DOMAIN tokensDb'
                /\ tokensDb'[tok].expiry = tokensDb[tok].expiry
                /\ tokensDb'[tok].user_id = tokensDb[tok].user_id
                /\ tokensDb'[tok] # tokensDb[tok] =>
                      /\ accOp'.op = "verify"
                      /\ accOp'.result = tokensDb[tok].user_id
                      /\ tokensDb[tok].expiry > now
          /\ (accOp'.op = "verify" /\ accOp' # accOp /\ ~accOp'.hit
                 /\ accOp'.result # NoneVal) =>
                /\ accOp'.token \in DOMAIN tokensDb
                /\ tokensDb[accOp'.token].expiry > now
                /\ accOp'.result = tokensDb[accOp'.token].user_id
          /\ accOp'.op \in {"issue", "refresh"} =>
                accOp'.added = DOMAIN tokensDb' \ DOMAIN tokensDb
          /\ accOp'.op = "save" => ~accOp'.result /\ tokensDb' = tokensDb]_vars

\* a save under the identifier of an expired token was refused, and the
\* token is still expired
C25_Witness ==
    /\ accOp.op = "save"
    /\ ~accOp.result
    /\ tokensDb[accOp.token].expiry <= now
    /\ Cardinality(DOMAIN tokensDb) > 1

(***************************************************************************)
(* Further claims about MemoryCache, checked over the reads and writes of  *)
(* two keys with two values.                                               *)
(***************************************************************************)
EntryKeys == {"k1", "k2"}
EntryValues == {1, 2}

NextEntry ==
    \/ \E k \in EntryKeys : CacheGet(k)
    \/ \E k \in EntryKeys, v \in EntryValues, ttl \in CacheTtls \cup {NoneVal} :
          CacheSet(k, v, ttl)
    \/ TickCache

SpecEntry == InitCache /\ [][NextEntry]_vars

\* C26: a get of a key the cache does not hold changes nothing; a get of
\* an entry that has not expired returns its value and changes the time of
\* last access of that entry only; a get of an expired entry removes that
\* entry only and returns None; so a get after the ttl of the last set
\* returns None however often the entry was read in between.
C26_GetDoesNotExtend ==
    /\ [][cacheOp'.op = "get" =>
            LET k == cacheOp'.key
            IN /\ \A j \in DOMAIN cache \ {k} :
                     /\ j \in DOMAIN cache'
                     /\ cache'[j] = cache[j]
                     /\ AtTimeOf(access_times', j) = AtTimeOf(access_times, j)
               /\ DOMAIN cache' \subseteq DOMAIN cache
               /\ AtKeys(access_times') = DOMAIN cache'
               /\ k \notin DOMAIN cache =>
                     /\ cache' = cache
                     /\ access_times' = access_times
                     /\ cacheOp'.result = NoneVal
               /\ (k \in DOMAIN cache /\ now > cache[k].expires_at) =>
                     /\ k \notin DOMAIN cache'
                     /\ cacheOp'.result = NoneVal
               /\ (k \in DOMAIN cache /\ ~(now > cache[k].expires_at)) =>
                     /\ cache' = cache
                     /\ AtTimeOf(access_times', k) = now
                     /\ cacheOp'.result = cache[k].value]_vars
    /\ []((GetAfterSet /\ SinceSet > setInfo[cacheOp.key].ttl) =>
             cacheOp.result = NoneVal)

\* an entry read after the instant of its set, next to another entry
C26_Witness ==
    /\ GetAfterSet
    /\ cacheOp.result # NoneVal
    /\ SinceSet > 0
    /\ AtTimeOf(access_times, cacheOp.key) = now
    /\ Cardinality(DOMAIN cache) > 1

\* C27: after set(key, value, ttl) at time t the entry of the key is the
\* value with expiry t + ttl (t + default_ttl when the ttl is omitted) and
\* time of last access t, whatever entry the key had before; the other
\* entries are as they were, and a set of a key that has an entry leaves
\* the number of entries unchanged.
C27_OverwriteReplaces ==
    [][cacheOp'.op = "set" =>
         LET k == cacheOp'.key
             ttl == IF cacheOp'.ttl = NoneVal THEN DefaultTtl ELSE cacheOp'.ttl
         IN /\ DOMAIN cache' = DOMAIN cache \cup {k}
            /\ cache'[k] = [value |-> cacheOp'.value, expires_at |-> now + ttl]
            /\ AtKeys(access_times') = AtKeys(access_times) \cup {k}
            /\ AtTimeOf(access_times', k) = now
            /\ \A j \in DOMAIN cache \ {k} :
                  /\ cache'[j] = cache[j]
                  /\ AtTimeOf(access_times', j) = AtTimeOf(access_times, j)
            /\ k \in DOMAIN cache =>
                  /\ Cardinality(DOMAIN cache') = Cardinality(DOMAIN cache)
                  /\ Len(access_times') = Len(access_times)]_vars

\* a set of the key that entered the cache first, made after the last
\* access of the key that entered second: the set found an entry
C27_Witness ==
    /\ cacheOp.op = "set"
    /\ cacheOp.value = 2
    /\ cacheOp.ttl # NoneVal
    /\ Len(access_times) = 2
    /\ access_times[1].key = cacheOp.key
    /\ access_times[1].t = now
    /\ access_times[2].t < now

(***************************************************************************)
(* Errors inside the loops, checked under SpecLife.                        *)
(***************************************************************************)
TaskOf(c) == IF c = "cache" THEN cleanup_task ELSE sweep_task
WakeOf(c) == IF c = "cache" THEN cleanup_wake ELSE sweep_wake
SleepOf(c) == IF c = "cache" THEN CleanupSleep ELSE SweepSleep

\* C30: a pass that raised an exception leaves the task running, asleep
\* for its interval; a running task whose sleep is over can make its next
\* pass; a running task stops running only when stop() cancels it, and a
\* cancelled task makes no pass and can only end.
C30_LoopsSurviveErrors ==
    /\ [](\A c \in Components :
             /\ (TaskOf(c) = "running" /\ now >= WakeOf(c)) => ENABLED LifePass(c)
             /\ TaskOf(c) = "cancelled" =>
                   /\ ENABLED LifeLoopExit(c)
                   /\ ~ENABLED LifePass(c)
                   /\ \A after \in BOOLEAN : ~ENABLED LifePassFails(c, after))
    /\ [][\A c \in Components :
             /\ (lifeOp'.op = "pass_failed" /\ lifeOp'.comp = c) =>
                   /\ TaskOf(c) = "running"
                   /\ TaskOf(c)' = "running"
                   /\ WakeOf(c)' = now + SleepOf(c)
             /\ (TaskOf(c) = "running" /\ TaskOf(c)' # "running") =>
                   /\ TaskOf(c)' = "cancelled"
                   /\ lifeOp' = [op |-> "cancel", comp |-> c]
             /\ (TaskOf(c) = "cancelled" /\ TaskOf(c)' # "cancelled") =>
                   /\ TaskOf(c)' = "done"
                   /\ lifeOp' = [op |-> "exit", comp |-> c]]_vars

\* a pass made after the first sleep of the loop raised an exception, and
\* the task is running and asleep until one interval later
C30_Witness ==
    /\ lifeOp.op = "pass_failed"
    /\ now > 0
    /\ TaskOf(lifeOp.comp) = "running"
    /\ WakeOf(lifeOp.comp) = now + SleepOf(lifeOp.comp)
    /\ stop_pc[lifeOp.comp] = "idle"

(***************************************************************************)
(* Pacing and order of the delivery of a batch, checked under SpecFan.     *)
(***************************************************************************)
\* number of chunks of a batch of n items
Chunks(n) == (n + ChunkSize - 1) \div ChunkSize

\* C31: the loop sleeps after a chunk exactly when another chunk follows:
\* while it sleeps there are items left, every chunk begun but the first
\* was preceded by one sleep, and when the loop is through it has slept
\* ceil(n / 5) - 1 times.
C31_InterChunkPacing ==
    /\ fan_pc = "sleep" => chunk_at + ChunkSize < Len(batch_files)
    /\ delays = (chunk_at \div ChunkSize) + (IF fan_pc = "sleep" THEN 1 ELSE 0)
    /\ fan_pc = "done" => delays = Chunks(Len(batch_files)) - 1
    /\ Len(batch_files) <= ChunkSize => delays = 0

\* a batch of two chunks is through, after one sleep
C31_Witness ==
    /\ fan_pc = "done"
    /\ Len(batch_files) > ChunkSize
    /\ delays = 1
    /\ Cardinality(processed) = Len(batch_files)

\* the subsequence of s made of the elements of the set keep
Only(s, keep) == SelectSeq(s, LAMBDA x : x \in keep)
Range(s) == {s[k] : k \in DOMAIN s}

\* C32: the items delivered so far are the items of the batch that were
\* processed and did not fail, in the order of the batch; one delivery at
\* most is awaited at a time.
C32_InputOrder ==
    /\ sent_messages = Only(batch_files, Range(sent_messages))
    /\ missing_files = Only(batch_files, Range(missing_files))
    /\ Range(sent_messages) \cup Range(missing_files) = processed
    /\ Range(sent_messages) \cap Range(missing_files) = {}
    /\ Cardinality(sending) <= 1
    /\ \A fid \in sending : \A k \in DOMAIN batch_files :
          batch_files[k] = fid => processed = {batch_files[j] : j \in 1..(k - 1)}

\* two items were delivered in the order of the batch although their
\* lookups returned in the opposite order
C32_Witness ==
    /\ Len(sent_messages) >= 2
    /\ \E a, b \in DOMAIN completed :
          /\ a < b
          /\ completed[a] = sent_messages[2]
          /\ completed[b] = sent_messages[1]
    /\ missing_files # <<>>

(***************************************************************************)
(* Admissions of one request, checked under SpecRequest.                   *)
(***************************************************************************)
\* how many times the request in progress was admitted by is_allowed
Admissions == Cardinality({k \in DOMAIN events : events[k] = "admitted"})

\* C33: one request is admitted once: it records one timestamp in the
\* window of its requester.
C33_OneAdmission == Admissions <= 1

\* a request is admitted once by the wrapper of each decorated handler it
\* enters: start_command, and send_file when start_command calls it
C33_OneAdmissionPerHandler == Admissions <= depth /\ depth <= 2

(***************************************************************************)
(* Memoization of generate_token, checked under SpecAccess.                *)
(***************************************************************************)
\* C34: a generate_token call served from the cache returns a token, never
\* the failure of an earlier call.
C34_FailedIssueNotMemoized ==
    (accOp.op = "issue" /\ accOp.hit) => accOp.result # GenFailed

\* a call served from the cache returns what the call that ran the function
\* returned, a token or the failure, and touches neither the store nor the
\* admins
C34_HitRepeatsLastResult ==
    (accOp.op = "issue" /\ accOp.hit) =>
        /\ accOp.result = cache[GenKey(accOp.user)].value
        /\ accOp.added = {}
        /\ ~accOp.notified

(***************************************************************************)
(* generate_token called by coroutines that overlap                        *)
(***************************************************************************)
offFlight == <<limiterVars, bucketVars, cleanup_task, cleanup_wake, cacheOp, setInfo,
               refreshVars, requestVars, batchVars, sideVars, verOp, okCount, freshFor>>

\* generate_token(owner, context) up to its first suspension: the wrapper of
\* @cached reads the cache and returns on a hit; on a miss the function
\* draws its uuid4 and awaits db.save_token
GenerateBegin(c, owner) ==
    /\ pend[c] = Idle
    /\ accCalls < MaxAccessCalls
    /\ accCalls' = accCalls + 1
    /\ LET g == MemGet(cache, access_times, GenKey(owner), now)
       IN /\ cache' = g.cache
          /\ access_times' = g.access
          /\ IF g.result # NoneVal
             THEN /\ accOp' = [op |-> "issue", caller |-> c, user |-> owner,
                               result |-> g.result, hit |-> TRUE]
                  /\ UNCHANGED <<pend, nextTok>>
             ELSE /\ accOp' = [op |-> "miss", caller |-> c, user |-> owner]
                  /\ pend' = [pend EXCEPT ![c] = [fn |-> "save", user_id |-> owner,
                                                  token |-> nextTok, t |-> now]]
                  /\ nextTok' = nextTok + 1
    /\ UNCHANGED <<now, tokensDb, issued>>
    /\ UNCHANGED offFlight

\* db.save_token has answered: on a failure the function returns
\* (None, None), which the wrapper stores; else the messages to the admins
\* and to the channel are awaited
GenerateSaved(c, ok) ==
    /\ pend[c].fn = "save"
    /\ LET sv == DbSaveToken(tokensDb, pend[c].token, pend[c].user_id,
                             pend[c].t + TokenDuration, ok)
           m == MemSet(cache, access_times, GenKey(pend[c].user_id), GenFailed, GenTtl, now)
       IN /\ tokensDb' = sv.db
          /\ issued' = [tok \in DOMAIN issued \cup DOMAIN sv.db |->
                          IF tok \in DOMAIN issued THEN issued[tok]
                          ELSE [user_id |-> sv.db[tok].user_id, expiry |-> sv.db[tok].expiry]]
          /\ IF sv.result
             THEN /\ pend' = [pend EXCEPT ![c].fn = "notify"]
                  /\ accOp' = [op |-> "saved", caller |-> c, user |-> pend[c].user_id]
                  /\ UNCHANGED <<cache, access_times>>
             ELSE /\ pend' = [pend EXCEPT ![c] = Idle]
                  /\ accOp' = [op |-> "issue", caller |-> c, user |-> pend[c].user_id,
                               result |-> GenFailed, hit |-> FALSE]
                  /\ cache' = m.cache
                  /\ access_times' = m.access
    /\ UNCHANGED <<now, nextTok, accCalls>>
    /\ UNCHANGED offFlight

\* the messages are out: the function returns the token and the wrapper
\* stores it with ttl 1800
GenerateNotified(c) ==
    /\ pend[c].fn = "notify"
    /\ LET m == MemSet(cache, access_times, GenKey(pend[c].user_id), pend[c].token, GenTtl, now)
       IN /\ cache' = m.cache
          /\ access_times' = m.access
    /\ accOp' = [op |-> "issue", caller |-> c, user |-> pend[c].user_id,
                 result |-> pend[c].token, hit |-> FALSE]
    /\ pend' = [pend EXCEPT ![c] = Idle]
    /\ UNCHANGED <<now, tokensDb, nextTok, issued, accCalls>>
    /\ UNCHANGED offFlight

NextFlight ==
    \/ \E c \in Callers, owner \in Owners : GenerateBegin(c, owner)
    \/ \E c \in Callers, ok \in BOOLEAN : GenerateSaved(c, ok)
    \/ \E c \in Callers : GenerateNotified(c)

SpecFlight == InitVerify /\ [][NextFlight]_vars

\* tokens the store holds for an owner
TokensOf(owner) == {tok \in DOMAIN tokensDb : tokensDb[tok].user_id = owner}

\* C35: generate_token calls for one owner, overlapping or not, run the
\* function once within the ttl of the memo: one coroutine at most is
\* inside the function for the owner, and one token is saved for the owner.
C35_SingleFlight ==
    \A owner \in Owners :
        /\ Cardinality({c \in Callers : pend[c] # Idle /\ pend[c].user_id = owner}) <= 1
        /\ Cardinality(TokensOf(owner)) <= 1

\* a call that begins after a call for the same owner has returned a token
\* is served that token from the cache
C35_AfterReturnShared ==
    (accOp.op = "issue" /\ accOp.hit) =>
        accOp.result = cache[GenKey(accOp.user)].value

(***************************************************************************)
(* ban_user and the ban check of start_command and send_file               *)
(***************************************************************************)
\* the users the admin bans and who send requests
BanUsers == {1}

offBan == <<limiterVars, bucketVars, cleanup_task, cleanup_wake, cacheOp, setInfo, tokensDb,
            nextTok, verOp, okCount, issued, refreshVars, requestVars, batchVars, accessVars,
            waitVars, lifeVars, monVars, decoVars, fanVars, poolVars>>

\* DatabaseManager.is_user_banned: False when the query raises
DbIsUserBanned(db, user_id, ok) == ok /\ user_id \in db

\* a handler begins for user u: "is_banned = cache.get(cache_key)"; on None
\* it awaits db.is_user_banned(user_id)
BanCheckBegin(c, u) ==
    /\ pend[c] = Idle
    /\ LET g == MemGet(cache, access_times, BanKey(u), now)
       IN /\ cache' = g.cache
          /\ access_times' = g.access
          /\ IF g.result # NoneVal
             THEN /\ banOp' = [op |-> "checked", caller |-> c, user |-> u,
                               after_ban |-> ban_pc = "done" /\ u \in bannedDb,
                               rejected |-> g.result = BoolVal(TRUE),
                               hit |-> TRUE, store_ok |-> TRUE]
                  /\ UNCHANGED pend
             ELSE /\ banOp' = [op |-> "lookup", caller |-> c, user |-> u]
                  /\ pend' = [pend EXCEPT ![c] =
                                [fn |-> "ban_lookup", user_id |-> u,
                                 after_ban |-> ban_pc = "done" /\ u \in bannedDb,
                                 answer |-> NoneVal, store_ok |-> TRUE]]
    /\ UNCHANGED <<now, bannedDb, ban_pc>>
    /\ UNCHANGED offBan

\* the store evaluates the query of a pending is_user_banned, or fails
BanStoreRead(c, ok) ==
    /\ pend[c].fn = "ban_lookup"
    /\ pend[c].answer = NoneVal
    /\ pend' = [pend EXCEPT ![c].answer = BoolVal(DbIsUserBanned(bannedDb, pend[c].user_id, ok)),
                            ![c].store_ok = ok]
    /\ banOp' = [op |-> "read", caller |-> c, user |-> pend[c].user_id]
    /\ UNCHANGED <<now, cache, access_times, bannedDb, ban_pc>>
    /\ UNCHANGED offBan

\* the handler is resumed with the answer: "cache.set(cache_key, is_banned,
\* ttl=300)", then "if is_banned:" rejects the request
BanCheckResume(c) ==
    /\ pend[c].fn = "ban_lookup"
    /\ pend[c].answer # NoneVal
    /\ LET m == MemSet(cache, access_times, BanKey(pend[c].user_id), pend[c].answer, BanTtl, now)
       IN /\ cache' = m.cache
          /\ access_times' = m.access
    /\ banOp' = [op |-> "checked", caller |-> c, user |-> pend[c].user_id,
                 after_ban |-> pend[c].after_ban,
                 rejected |-> pend[c].answer = BoolVal(TRUE),
                 hit |-> FALSE, store_ok |-> pend[c].store_ok]
    /\ pend' = [pend EXCEPT ![c] = Idle]
    /\ UNCHANGED <<now, bannedDb, ban_pc>>
    /\ UNCHANGED offBan

\* /ban <user_id> of an admin: "success = await db.ban_user(user_id, reason)",
\* the store applying the update or failing
BanStore(u, ok) ==
    /\ ban_pc = "idle"
    /\ IF ok
       THEN /\ bannedDb' = bannedDb \cup {u}
            /\ ban_pc' = "stored"
            /\ banOp' = [op |-> "ban_stored", user |-> u]
       ELSE /\ banOp' = [op |-> "ban_failed", user |-> u]
            /\ UNCHANGED <<bannedDb, ban_pc>>
    /\ UNCHANGED <<now, cache, access_times, pend>>
    /\ UNCHANGED offBan

\* ban_user resumed after a successful update: it deletes the two cache
\* keys of the user and replies
BanComplete(u) ==
    /\ ban_pc = "stored"
    /\ u \in bannedDb
    /\ LET d1 == MemDelete(cache, access_times, BanKey(u))
           d2 == MemDelete(d1.cache, d1.access, UserTokenKey(u))
       IN /\ cache' = d2.cache
          /\ access_times' = d2.access
    /\ ban_pc' = "done"
    /\ banOp' = [op |-> "ban_done", user |-> u]
    /\ UNCHANGED <<now, bannedDb, pend>>
    /\ UNCHANGED offBan

NextBan ==
    \/ \E c \in Callers, u \in BanUsers : BanCheckBegin(c, u)
    \/ \E c \in Callers, ok \in BOOLEAN : BanStoreRead(c, ok)
    \/ \E c \in Callers : BanCheckResume(c)
    \/ \E u \in BanUsers, ok \in BOOLEAN : BanStore(u, ok)
    \/ \E u \in BanUsers : BanComplete(u)

SpecBan == InitVerify /\ [][NextBan]_vars

\* C36: a handler call of a user that begins after ban_user has completed
\* for the user is rejected as banned, the store answering the calls that
\* ask it.
C36_BanImmediate ==
    (banOp.op = "checked" /\ banOp.after_ban /\ banOp.store_ok) => banOp.rejected

\* a call that begins after the ban and has to ask the store is rejected
\* when the store answers
C36_BanSeenByStoreLookup ==
    (banOp.op = "checked" /\ banOp.after_ban /\ banOp.store_ok /\ ~banOp.hit) =>
        banOp.rejected

(***************************************************************************)
(* Admissions and reads with the background loops running in between       *)
(***************************************************************************)
QuietUsers == {1}
QuietKeys == {"k1"}

TickQuiet ==
    /\ now + TickSeconds <= LimiterMaxTime
    /\ now' = now + TickSeconds
    /\ cacheOp' = NoOp
    /\ limOp' = NoOp
    /\ UNCHANGED <<cache, access_times, cleanup_task, cleanup_wake, setInfo, user_requests,
                   sweep_task, sweep_wake, calls>>
    /\ UNCHANGED <<bucketVars, tokenVars, refreshVars, handlerVars>>

NextQuiet ==
    \/ \E u \in QuietUsers : LimIsAllowed(u)
    \/ LimStart
    \/ LimSweepCycle
    \/ \E k \in QuietKeys : CacheGet(k)
    \/ \E k \in QuietKeys, v \in CacheValues, ttl \in CacheTtls \cup {NoneVal} :
          CacheSet(k, v, ttl)
    \/ CacheStart
    \/ CacheCleanupCycle
    \/ TickQuiet

SpecQuiet == InitCache /\ [][NextQuiet]_vars

\* the window of u after the first k of the calls cs, no sweep in between
RECURSIVE ReplayWindow(_, _, _)
ReplayWindow(cs, u, k) ==
    IF k = 0 THEN <<>> ELSE IsAllowed(ReplayWindow(cs, u, k - 1), u, cs[k].t).ur

\* C37: every is_allowed call returned what it returns when the same calls
\* are made at the same times and no sweep runs, and the window is the one
\* of that run but for requests older than the cutoff; every get returned
\* the value of the last set up to its expiry and None after it, whether a
\* reclamation cycle had removed the entry or not.
C37_SweepUnobservable ==
    /\ \A u \in QuietUsers :
          /\ \A k \in DOMAIN calls[u] :
                calls[u][k].ok = IsAllowed(ReplayWindow(calls[u], u, k - 1), u, calls[u][k].t).result
          /\ PruneOld(RequestsOf(user_requests, u), now - WindowSeconds)
               = PruneOld(RequestsOf(ReplayWindow(calls[u], u, Len(calls[u])), u),
                          now - WindowSeconds)
    /\ cacheOp.op = "get" =>
          cacheOp.result = IF setInfo[cacheOp.key].live /\ SinceSet <= setInfo[cacheOp.key].ttl
                           THEN setInfo[cacheOp.key].value
                           ELSE NoneVal

\* a request is admitted right after a sweep cycle, run at the same
\* instant, has removed what the earlier calls of the user had left
C37_Witness ==
    \E u \in QuietUsers :
        /\ limOp = [op |-> "is_allowed", user |-> u, result |-> TRUE]
        /\ sweep_task = "running"
        /\ sweep_wake = now + SweepSleep
        /\ Len(calls[u]) = MaxCalls
        /\ user_requests[u] = <<now>>
        /\ ~calls[u][MaxCalls - 1].ok

(***************************************************************************)
(* ConnectionPool                                                          *)
(***************************************************************************)
offPool == <<now, cacheVars, limiterVars, bucketVars, tokenVars, refreshVars, requestVars,
             batchVars, accessVars, waitVars, lifeVars, monVars, decoVars, fanVars, banVars>>

\* acquire() up to its first suspension: a connection of the queue is
\* returned at once; on QueueEmpty the client goes for the lock
PoolAcquire(c) ==
    /\ pool_pc[c] = "idle"
    /\ IF pool_q > 0
       THEN /\ pool_q' = pool_q - 1
            /\ pool_pc' = [pool_pc EXCEPT ![c] = "holding"]
       ELSE /\ pool_pc' = [pool_pc EXCEPT ![c] = "lock"]
            /\ UNCHANGED pool_q
    /\ UNCHANGED <<created_connections, pool_lock, open_conns>>
    /\ UNCHANGED offPool

\* "async with self._lock": under the limit the client awaits
\* create_connection() holding the lock; at the limit it leaves the lock and
\* awaits self._pool.get()
PoolLocked(c) ==
    /\ pool_pc[c] = "lock"
    /\ pool_lock = NoneVal
    /\ IF created_connections < MaxConnections
       THEN /\ pool_pc' = [pool_pc EXCEPT ![c] = "creating"]
            /\ pool_lock' = c
       ELSE /\ pool_pc' = [pool_pc EXCEPT ![c] = "waiting"]
            /\ UNCHANGED pool_lock
    /\ UNCHANGED <<pool_q, created_connections, open_conns>>
    /\ UNCHANGED offPool

\* create_connection() returns a connection, which is counted and returned,
\* or raises, and the exception leaves acquire() through the lock
PoolCreated(c, ok) ==
    /\ pool_pc[c] = "creating"
    /\ pool_lock' = NoneVal
    /\ IF ok
       THEN /\ created_connections' = created_connections + 1
            /\ open_conns' = open_conns + 1
            /\ pool_pc' = [pool_pc EXCEPT ![c] = "holding"]
       ELSE /\ pool_pc' = [pool_pc EXCEPT ![c] = "idle"]
            /\ UNCHANGED <<created_connections, open_conns>>
    /\ UNCHANGED pool_q
    /\ UNCHANGED offPool

\* "return await self._pool.get()" is resumed with a released connection
PoolGot(c) ==
    /\ pool_pc[c] = "waiting"
    /\ pool_q > 0
    /\ pool_q' = pool_q - 1
    /\ pool_pc' = [pool_pc EXCEPT ![c] = "holding"]
    /\ UNCHANGED <<created_connections, pool_lock, open_conns>>
    /\ UNCHANGED offPool

\* release(connection): put_nowait, or on QueueFull the connection is closed
\* and the counter decremented
PoolRelease(c) ==
    /\ pool_pc[c] = "holding"
    /\ pool_pc' = [pool_pc EXCEPT ![c] = "idle"]
    /\ IF pool_q < MaxConnections
       THEN /\ pool_q' = pool_q + 1
            /\ UNCHANGED <<created_connections, open_conns>>
       ELSE /\ open_conns' = open_conns - 1
            /\ created_connections' = created_connections - 1
            /\ UNCHANGED pool_q
    /\ UNCHANGED pool_lock
    /\ UNCHANGED offPool

\* close_all(): the connections of the queue are closed and the counter is
\* set to 0
PoolCloseAll ==
    /\ open_conns' = open_conns - pool_q
    /\ pool_q' = 0
    /\ created_connections' = 0
    /\ UNCHANGED <<pool_lock, pool_pc>>
    /\ UNCHANGED offPool

NextPool ==
    \/ \E c \in PoolClients : PoolAcquire(c)
    \/ \E c \in PoolClients : PoolLocked(c)
    \/ \E c \in PoolClients, ok \in BOOLEAN : PoolCreated(c, ok)
    \/ \E c \in PoolClients : PoolGot(c)
    \/ \E c \in PoolClients : PoolRelease(c)
    \/ PoolCloseAll

SpecPool == InitCache /\ [][NextPool]_vars

\* C38: the connections created and not closed are max_connections at
\* most, and the counter of created connections is within
\* 0..max_connections.
C38_PoolBound ==
    /\ open_conns <= MaxConnections
    /\ created_connections \in 0..MaxConnections

\* a client awaits the queue only with the counter at the limit, and it
\* stays there until the queue holds a connection, which it takes
C38_WaitsForRelease ==
    [][\A c \in PoolClients :
          /\ (pool_pc[c] # "waiting" /\ pool_pc'[c] = "waiting") =>
                created_connections >= MaxConnections
          /\ (pool_pc[c] = "waiting" /\ pool_pc'[c] # "waiting") =>
                pool_q > 0 /\ pool_pc'[c] = "holding"]_vars

(***************************************************************************)
(* start() called again, checked under SpecLife.                           *)
(***************************************************************************)
\* C39: each instance has one loop task alive at most, the one its task
\* attribute refers to; start() creates a loop only when the instance has
\* no task or a task that is done, and then one.
C39_StartIdempotent ==
    /\ [](\A c \in Components :
             /\ loops[c] \in {0, 1}
             /\ loops[c] = 1 <=> TaskOf(c) \in {"running", "cancelled"})
    /\ [][\A c \in Components :
             (lifeOp'.op = "start" /\ lifeOp'.comp = c) =>
                 /\ TaskOf(c) \in {"running", "cancelled"} =>
                       loops'[c] = loops[c] /\ TaskOf(c)' = TaskOf(c)
                 /\ TaskOf(c) \in {"none", "done"} =>
                       loops'[c] = 1 /\ TaskOf(c)' = "running"]_vars

\* start() has created a loop after a stop() that had ended the one before
C39_Witness ==
    /\ lifeOp.op = "start"
    /\ lifeOp.created
    /\ lifeOp.after_stop
    /\ loops[lifeOp.comp] = 1
    /\ TaskOf(lifeOp.comp) = "running"

(***************************************************************************)
(* The two maps of MemoryCache, checked under SpecCache.                   *)
(***************************************************************************)
\* C40: the access-time map holds one time for each key of the entry map
\* and for no other key, so the size reported is the number of keys the
\* eviction sorts; the time of a key is set to the current time by a set of
\* the key and by a get that returns its value, and by nothing else, and it
\* is not before the last set of the key.
C40_Bookkeeping ==
    /\ [](/\ AtKeys(access_times) = DOMAIN cache
          /\ Len(access_times) = Cardinality(DOMAIN cache)
          /\ \A k \in DOMAIN cache :
                /\ setInfo[k].live
                /\ setInfo[k].t0 <= AtTimeOf(access_times, k)
                /\ AtTimeOf(access_times, k) <= now)
    /\ [][\A k \in DOMAIN cache' :
             IF \/ cacheOp'.op = "set" /\ cacheOp'.key = k
                \/ cacheOp'.op = "get" /\ cacheOp'.key = k /\ cacheOp'.result # NoneVal
             THEN AtTimeOf(access_times', k) = now
             ELSE /\ k \in DOMAIN cache
                  /\ AtTimeOf(access_times', k) = AtTimeOf(access_times, k)]_vars

\* a key was deleted, and of the two keys left one was read after it was set
C40_Witness ==
    /\ cacheOp.op = "delete"
    /\ cacheOp.result
    /\ Cardinality(DOMAIN cache) = 2
    /\ \E k \in DOMAIN cache : AtTimeOf(access_times, k) > setInfo[k].t0

====
